---- MODULE Spec2Model ----
(***************************************************************************)
(* EPUB ingestion and persistent spine/TOC index pipeline of the           *)
(* crosspoint reader: Epub::load(), the BookMetadataCache builder and      *)
(* reader, and the byte layout of book.bin.                                *)
(*                                                                         *)
(* Files are sequences of bytes (0..255).  Offsets are 0-based as in the   *)
(* C++ code; byte at offset p of file f is f[p + 1].                       *)
(***************************************************************************)
EXTENDS Integers, Sequences, FiniteSets, TLC

VARIABLES
  pc,            \* position inside Epub::load() ("idle" before any call)
  result,        \* value returned by the last Epub::load()
  cache,         \* the BookMetadataCache held by Epub::bookMetadataCache
  fs,            \* block storage under the cache path: name -> [exists, data]
  archive,       \* the EPUB archive (ZipFile) being opened
  tocNcxItem,    \* Epub::tocNcxItem
  bookMetadata,  \* local bookMetadata of Epub::load()
  stageError,    \* stage of the current load() at which a failure happened
  spineArgs,     \* hrefs handed to createSpineEntry in the latest build
  tocArgs,       \* entries handed to createTocEntry in the latest build
  finalized,     \* inputs of the build whose buildBookBin returned true
  lastRead,      \* result of the last getSpineEntry / getTocEntry
  parserFiles,   \* handles of ContentOpfParser::tempItemStore and tempNcxFile
  outOfPhase,    \* creator calls made outside their phase: <<call, state>>
  opf,           \* the ContentOpfParser of parseContentOpf and the document it reads
  activity       \* EpubReaderActivity: its two tasks, renderingMutex and section

vars == <<pc, result, cache, fs, archive, tocNcxItem, bookMetadata, stageError,
          spineArgs, tocArgs, finalized, lastRead, parserFiles, outOfPhase,
          opf, activity>>

---------------------------------------------------------------------------
(* Bounds of the model *)

MaxSpine == 2      \* spine entries per build
MaxToc == 2        \* TOC entries per build
MaxOutOfPhase == 1 \* creator calls made outside their phase in one build
MaxItems == 2      \* item elements read inside the manifest
MaxChapters == 2   \* spine items of the book being read
MaxPages == 2      \* pages of a section

(* Program constants *)

BOOK_CACHE_VERSION == 1
StaleVersion == BOOK_CACHE_VERSION - 1   \* the version byte of an older format
SizeTWidth == 4            \* sizeof(size_t)
StrLenWidth == 4           \* sizeof(uint32_t), the string length prefix
CountWidth == 4            \* spineCount / tocCount
IndexWidth == 4            \* tocIndex / spineIndex
LevelWidth == 1            \* level
NotFound == -1             \* "none" index

bookBinFile == "book.bin"
tmpSpineBinFile == "spine.bin.tmp"
tmpTocBinFile == "toc.bin.tmp"
tmpNcxFile == "toc.ncx"
itemCacheFile == ".items.bin"
FileNames ==
  {bookBinFile, tmpSpineBinFile, tmpTocBinFile, tmpNcxFile, itemCacheFile}

(* Strings are sequences of character codes. *)
Slash == 47
DotDot == <<46, 46>>
HrefA == <<97>>                  \* "a"
HrefB == <<46, 46, 47, 98>>      \* "../b", normalised to "b"
HrefZ == <<122>>                 \* "z", never a spine item
PathA == <<97>>
PathB == <<98>>
SpineHrefs == {HrefA, HrefB}
ArchivePaths == {PathA, PathB}
\* getInflatedFileSize(path): fails (NotFound), or the inflated size of the item
SizeAnswers ==
  { [p \in ArchivePaths |-> IF p = PathA THEN a ELSE b] :
      a \in {NotFound, 1000}, b \in {NotFound, 1500} }

TocInputs ==
  { [title |-> <<67>>, href |-> HrefA, anchor |-> <<>>,    level |-> 1],
    [title |-> <<>>,   href |-> HrefZ, anchor |-> <<115>>, level |-> 2] }

MetadataInputs ==
  { [title |-> <<>>,        author |-> <<>>, coverItemHref |-> <<>>],
    [title |-> <<84, 105>>, author |-> <<>>, coverItemHref |-> <<99>>] }

EmptyMetadata == [title |-> <<>>, author |-> <<>>, coverItemHref |-> <<>>]

---------------------------------------------------------------------------
(* Serialization: PODs are little-endian, strings are length-prefixed. *)

writePod(v, w) == [k \in 1..w |-> (v \div (256 ^ (k - 1))) % 256]

ByteAt(f, p) == IF p < Len(f) THEN f[p + 1] ELSE 0

RECURSIVE readBytes(_, _, _)
readBytes(f, pos, w) ==
  IF w = 0 THEN 0 ELSE ByteAt(f, pos) + 256 * readBytes(f, pos + 1, w - 1)

\* every offset and length from here on lies past the end of any file built
\* here; larger values are all read as this one
PastAnyFile == 64 * (256 ^ (SizeTWidth - 1))

readUnsigned(f, pos, w) ==
  IF w >= SizeTWidth /\ ByteAt(f, pos + w - 1) >= 64
  THEN PastAnyFile
  ELSE readBytes(f, pos, w)

\* two's complement value of the w bytes at pos
readSigned(f, pos, w) ==
  LET top == ByteAt(f, pos + w - 1)
      low == readBytes(f, pos, w - 1)
  IN  IF top >= 128 THEN low + (top - 256) * (256 ^ (w - 1))
                    ELSE low + top * (256 ^ (w - 1))

writeString(s) == writePod(Len(s), StrLenWidth) \o s

\* File::read gives no more bytes than the file holds: the length of the
\* string whose bytes start at start, n being the stored length prefix
stringLength(f, start, n) ==
  IF start + n <= Len(f) THEN n
  ELSE IF Len(f) > start THEN Len(f) - start
  ELSE 0

stringAt(f, start, n) ==
  [val |-> [k \in 1..n |-> f[start + k]], next |-> start + n]

\* the file and the position are bound once, as values
readString(f, pos) ==
  CHOOSE r \in { stringAt(g, p + StrLenWidth,
                          stringLength(g, p + StrLenWidth,
                                       readUnsigned(g, p, StrLenWidth))) :
                 g \in {f}, p \in {pos} } : TRUE

---------------------------------------------------------------------------
(* Records of the index *)

SpineEntry(href, cumulativeSize, tocIndex) ==
  [href |-> href, cumulativeSize |-> cumulativeSize, tocIndex |-> tocIndex]

TocEntry(title, href, anchor, level, spineIndex) ==
  [title |-> title, href |-> href, anchor |-> anchor, level |-> level,
   spineIndex |-> spineIndex]

DefaultSpineEntry == SpineEntry(<<>>, 0, NotFound)
DefaultTocEntry == TocEntry(<<>>, <<>>, <<>>, 0, NotFound)

writeSpineEntry(entry) ==
  writeString(entry.href) \o writePod(entry.cumulativeSize, SizeTWidth)
    \o writePod(entry.tocIndex, IndexWidth)

writeTocEntry(entry) ==
  writeString(entry.title) \o writeString(entry.href) \o writeString(entry.anchor)
    \o writePod(entry.level, LevelWidth) \o writePod(entry.spineIndex, IndexWidth)

readSpineEntry(f, pos) ==
  LET h == readString(f, pos)
  IN  [entry |-> SpineEntry(h.val,
                            readUnsigned(f, h.next, SizeTWidth),
                            readSigned(f, h.next + SizeTWidth, IndexWidth)),
       next  |-> h.next + SizeTWidth + IndexWidth]

readTocEntry(f, pos) ==
  LET t == readString(f, pos)
      h == readString(f, t.next)
      a == readString(f, h.next)
  IN  [entry |-> TocEntry(t.val, h.val, a.val,
                          readUnsigned(f, a.next, LevelWidth),
                          readSigned(f, a.next + LevelWidth, IndexWidth)),
       next  |-> a.next + LevelWidth + IndexWidth]

\* the n records found from pos on, each with the position it starts at
RECURSIVE spineRecords(_, _, _)
spineRecords(f, pos, n) ==
  IF n = 0 THEN <<>>
  ELSE LET r == readSpineEntry(f, pos)
       IN  <<[pos |-> pos, entry |-> r.entry, next |-> r.next]>>
             \o spineRecords(f, r.next, n - 1)

RECURSIVE tocRecords(_, _, _)
tocRecords(f, pos, n) ==
  IF n = 0 THEN <<>>
  ELSE LET r == readTocEntry(f, pos)
       IN  <<[pos |-> pos, entry |-> r.entry, next |-> r.next]>>
             \o tocRecords(f, r.next, n - 1)

RECURSIVE Flatten(_)
Flatten(ss) == IF ss = <<>> THEN <<>> ELSE Head(ss) \o Flatten(Tail(ss))

---------------------------------------------------------------------------
(* FsHelpers *)

RECURSIVE normaliseScan(_, _, _)
normaliseScan(rest, component, components) ==
  IF rest = <<>>
  THEN IF component # <<>> THEN Append(components, component) ELSE components
  ELSE LET c == Head(rest)
       IN  IF c = Slash
           THEN IF component # <<>>
                THEN IF component = DotDot
                     THEN normaliseScan(Tail(rest), <<>>,
                            IF components # <<>>
                            THEN SubSeq(components, 1, Len(components) - 1)
                            ELSE components)
                     ELSE normaliseScan(Tail(rest), <<>>, Append(components, component))
                ELSE normaliseScan(Tail(rest), component, components)
           ELSE normaliseScan(Tail(rest), Append(component, c), components)

RECURSIVE joinPath(_)
joinPath(components) ==
  IF components = <<>> THEN <<>>
  ELSE IF Len(components) = 1 THEN Head(components)
  ELSE Head(components) \o <<Slash>> \o joinPath(Tail(components))

normalisePath(path) == joinPath(normaliseScan(path, <<>>, <<>>))

NoFile == [exists |-> FALSE, data |-> <<>>]
FileOf(bytes) == [exists |-> TRUE, data |-> bytes]

\* SD.exists(path) and SD.open(path, FILE_READ) gives a valid handle
openFileForRead(fsys, name, sdFault) == fsys[name].exists /\ ~sdFault

\* SD.open(path, FILE_WRITE, true): creates the file or truncates it
OpenFileKeepingContents(fsys, name) ==
  [fsys EXCEPT ![name] = FileOf(fsys[name].data)]

openFileForWrite(fsys, name) == [fsys EXCEPT ![name] = FileOf(<<>>)]

\* File::write on a handle: only a handle opened for writing appends
appendTo(fsys, name, mode, bytes) ==
  IF mode = "w" THEN [fsys EXCEPT ![name].data = @ \o bytes] ELSE fsys

---------------------------------------------------------------------------
(* BookMetadataCache: building *)

NewCache ==
  [loaded |-> FALSE, buildMode |-> FALSE, lutOffset |-> 0,
   spineCount |-> 0, tocCount |-> 0, coreMetadata |-> EmptyMetadata,
   bookFile |-> "closed", spineFile |-> "closed", tocFile |-> "closed"]

beginWrite(c) == [c EXCEPT !.buildMode = TRUE, !.spineCount = 0, !.tocCount = 0]

endWriteOk(c) == c.buildMode

endWrite(c) == IF ~c.buildMode THEN c ELSE [c EXCEPT !.buildMode = FALSE]

createSpineEntry(c, fsys, href) ==
  IF ~c.buildMode \/ c.spineFile = "closed"
  THEN [cache |-> c, fs |-> fsys]
  ELSE [cache |-> [c EXCEPT !.spineCount = @ + 1],
        fs    |-> appendTo(fsys, tmpSpineBinFile, c.spineFile,
                           writeSpineEntry(SpineEntry(href, 0, NotFound)))]

\* the scan of createTocEntry: spineFile.seek(0), then the first i with an equal href
RECURSIVE findSpineIndex(_, _, _, _, _)
\* the scan going on after a match, so that the last match is returned
FindLastSpineIndex(f, pos, i, spineCount, href) ==
  IF i >= spineCount THEN NotFound
  ELSE LET r == readSpineEntry(f, pos)
           later == findSpineIndex(f, r.next, i + 1, spineCount, href)
       IN  IF later # NotFound THEN later
           ELSE IF r.entry.href = href THEN i ELSE NotFound

findSpineIndex(f, pos, i, spineCount, href) ==
  IF i >= spineCount THEN NotFound
  ELSE LET r == readSpineEntry(f, pos)
       IN  IF r.entry.href = href THEN i
           ELSE findSpineIndex(f, r.next, i + 1, spineCount, href)

CreateTocEntryInAnyPass(c, fsys, title, href, anchor, level) ==
  IF ~c.buildMode
  THEN [cache |-> c, fs |-> fsys]
  ELSE LET spineIndex ==
             findSpineIndex(fsys[tmpSpineBinFile].data, 0, 0, c.spineCount, href)
       IN  [cache |-> [c EXCEPT !.tocCount = @ + 1],
            fs    |-> appendTo(fsys, tmpTocBinFile, c.tocFile,
                        writeTocEntry(TocEntry(title, href, anchor, level, spineIndex)))]

DropUnresolvedTocEntry(c, fsys, title, href, anchor, level) ==
  LET spineIndex == findSpineIndex(fsys[tmpSpineBinFile].data, 0, 0, c.spineCount, href)
  IN  IF ~c.buildMode \/ c.tocFile = "closed" \/ c.spineFile = "closed"
         \/ spineIndex = NotFound
      THEN [cache |-> c, fs |-> fsys]
      ELSE [cache |-> [c EXCEPT !.tocCount = @ + 1],
            fs    |-> appendTo(fsys, tmpTocBinFile, c.tocFile,
                        writeTocEntry(TocEntry(title, href, anchor, level, spineIndex)))]

createTocEntry(c, fsys, title, href, anchor, level) ==
  IF ~c.buildMode \/ c.tocFile = "closed" \/ c.spineFile = "closed"
  THEN [cache |-> c, fs |-> fsys]
  ELSE LET spineIndex ==
             findSpineIndex(fsys[tmpSpineBinFile].data, 0, 0, c.spineCount, href)
       IN  [cache |-> [c EXCEPT !.tocCount = @ + 1],
            fs    |-> appendTo(fsys, tmpTocBinFile, c.tocFile,
                        writeTocEntry(TocEntry(title, href, anchor, level, spineIndex)))]

headerASize == 1 + SizeTWidth + CountWidth + CountWidth

metadataSize(m) ==
  Len(m.title) + Len(m.author) + Len(m.coverItemHref) + StrLenWidth * 3

\* the size of a LUT that has slots for the spine only
LutSizeOfSpineSlots(c) == SizeTWidth * c.spineCount

lutSize(c) == SizeTWidth * c.spineCount + SizeTWidth * c.tocCount

LutValueWithoutLutSize(pos, lutOffset, lutSz) == pos + lutOffset

spineLutValue(pos, lutOffset, lutSz) == pos + lutOffset + lutSz

TocLutValueWithoutSpineBlock(pos, lutOffset, lutSz, spineEnd) == pos + lutOffset + lutSz

tocLutValue(pos, lutOffset, lutSz, spineEnd) == pos + lutOffset + lutSz + spineEnd

\* the inner loop of the merge: the first j >= from with tocEntry.spineIndex == i
\* the merge without the test of tocEntry.spineIndex: the first TOC entry is taken
FirstTocIndexUntested(tocs, i, j, current) ==
  IF j >= Len(tocs) THEN current ELSE j

RECURSIVE LastTocIndexFor(_, _, _, _)
LastTocIndexFor(tocs, i, j, current) ==
  IF j >= Len(tocs) THEN current
  ELSE LastTocIndexFor(tocs, i, j + 1,
                       IF tocs[j + 1].entry.spineIndex = i THEN j ELSE current)

RECURSIVE matchTocIndex(_, _, _, _)
matchTocIndex(tocs, i, j, current) ==
  IF j >= Len(tocs) THEN current
  ELSE IF tocs[j + 1].entry.spineIndex = i THEN j
  ELSE matchTocIndex(tocs, i, j + 1, current)

\* zip.getInflatedFileSize(path, &itemSize): NotFound when it returns false
getInflatedFileSize(sizes, path) ==
  IF path \in DOMAIN sizes THEN sizes[path] ELSE NotFound

\* the spine data loop of buildBookBin, from spine index i on.  cumSize is a
\* size_t; the sizes of the model keep every sum far below 2^32.
RECURSIVE mergeSpine(_, _, _, _, _)
mergeSpine(spines, tocs, sizes, i, cumSize) ==
  IF i >= Len(spines) THEN <<>>
  ELSE LET spineEntry == spines[i + 1].entry
           tocIndex   == matchTocIndex(tocs, i, 0, spineEntry.tocIndex)
           itemSize   == getInflatedFileSize(sizes, normalisePath(spineEntry.href))
           found      == itemSize # NotFound
           newCum     == IF found THEN cumSize + itemSize ELSE cumSize
           out        == SpineEntry(spineEntry.href,
                                    IF found THEN newCum ELSE spineEntry.cumulativeSize,
                                    tocIndex)
       IN  <<out>> \o mergeSpine(spines, tocs, sizes, i + 1, newCum)

BuildFaults == {"none", "openBook", "openSpine", "openToc", "zipOpen", "zipStat"}

\* buildBookBin(epubPath, metadata): the value returned, the files and the handles
buildBookBin(c, fsys, metadata, sizes, fault) ==
  LET closed    == [c EXCEPT !.bookFile = "closed", !.spineFile = "closed",
                             !.tocFile = "closed"]
      created   == openFileForWrite(fsys, bookBinFile)
      spineData == fsys[tmpSpineBinFile].data
      tocData   == fsys[tmpTocBinFile].data
      lutOffset == headerASize + metadataSize(metadata)
      lutSz     == lutSize(c)
      spines    == spineRecords(spineData, 0, c.spineCount)
      tocs      == tocRecords(tocData, 0, c.tocCount)
      spineEnd  == IF spines = <<>> THEN 0 ELSE spines[Len(spines)].next
      header    == writePod(BOOK_CACHE_VERSION, 1) \o writePod(lutOffset, SizeTWidth)
                     \o writePod(c.spineCount, CountWidth)
                     \o writePod(c.tocCount, CountWidth)
      meta      == writeString(metadata.title) \o writeString(metadata.author)
                     \o writeString(metadata.coverItemHref)
      spineLut  == Flatten([k \in 1..Len(spines) |->
                     writePod(spineLutValue(spines[k].pos, lutOffset, lutSz), SizeTWidth)])
      tocLut    == Flatten([k \in 1..Len(tocs) |->
                     writePod(tocLutValue(tocs[k].pos, lutOffset, lutSz, spineEnd),
                              SizeTWidth)])
      merged    == mergeSpine(spines, tocs, sizes, 0, 0)
      spineBlk  == Flatten([k \in 1..Len(merged) |-> writeSpineEntry(merged[k])])
      tocBlk    == Flatten([k \in 1..Len(tocs) |-> writeTocEntry(tocs[k].entry)])
      prefix    == header \o meta \o spineLut \o tocLut
  IN  IF fault = "openBook"
      THEN [ok |-> FALSE, cache |-> closed, fs |-> fsys]
      ELSE IF fault = "openSpine" \/ ~openFileForRead(fsys, tmpSpineBinFile, FALSE)
      THEN [ok |-> FALSE, cache |-> closed, fs |-> created]
      ELSE IF fault = "openToc" \/ ~openFileForRead(fsys, tmpTocBinFile, FALSE)
      THEN [ok |-> FALSE, cache |-> closed, fs |-> created]
      ELSE IF fault \in {"zipOpen", "zipStat"}
      THEN [ok |-> FALSE, cache |-> closed,
            fs |-> [created EXCEPT ![bookBinFile].data = @ \o prefix]]
      ELSE [ok |-> TRUE, cache |-> closed,
            fs |-> [created EXCEPT ![bookBinFile].data =
                                     @ \o prefix \o spineBlk \o tocBlk]]

CleanupSpineOnly(fsys) == [fsys EXCEPT ![tmpSpineBinFile] = NoFile]

cleanupTmpFiles(fsys) ==
  [fsys EXCEPT ![tmpSpineBinFile] = NoFile, ![tmpTocBinFile] = NoFile]

---------------------------------------------------------------------------
(* BookMetadataCache: loading and reading *)

\* What read() leaves behind when it runs past the end of the file is not
\* determined by the program: the version byte of an empty book.bin and the
\* lengths read by readString are whatever the memory held.
Indeterminate == {"mismatch", "loaded", "crash"}

\* a book.bin too short to hold the header and the three metadata lengths
shortBookBin(f) == Len(f) < headerASize + StrLenWidth * 3

LoadNeverHits(c, fsys, sdFault, indet) == [outcome |-> "fail", cache |-> c]

LoadReadingHeaderFirst(c, fsys, sdFault, indet) ==
  LET f       == fsys[bookBinFile].data
      title   == readString(f, headerASize)
      author  == readString(f, title.next)
      cover   == readString(f, author.next)
      read    == [c EXCEPT !.lutOffset = readUnsigned(f, 1, SizeTWidth),
                           !.spineCount = readUnsigned(f, 1 + SizeTWidth, CountWidth),
                           !.tocCount = readUnsigned(f, 1 + SizeTWidth + CountWidth, CountWidth),
                           !.coreMetadata = [title |-> title.val, author |-> author.val,
                                             coverItemHref |-> cover.val]]
  IN  IF ~openFileForRead(fsys, bookBinFile, sdFault)
      THEN [outcome |-> "fail", cache |-> c]
      ELSE IF f # <<>> /\ f[1] # BOOK_CACHE_VERSION
      THEN [outcome |-> "fail", cache |-> [read EXCEPT !.bookFile = "closed"]]
      ELSE IF shortBookBin(f)
      THEN IF indet = "mismatch" /\ f = <<>>
           THEN [outcome |-> "fail", cache |-> [c EXCEPT !.bookFile = "closed"]]
           ELSE IF indet = "crash"
           THEN [outcome |-> "crash", cache |-> c]
           ELSE [outcome |-> "ok",
                 cache |-> [c EXCEPT !.loaded = TRUE, !.bookFile = "r"]]
      ELSE [outcome |-> "ok", cache |-> [read EXCEPT !.loaded = TRUE, !.bookFile = "r"]]

\* BookMetadataCache::load(): outcome "ok" (true), "fail" (false) or "crash"
load(c, fsys, sdFault, indet) ==
  LET f       == fsys[bookBinFile].data
      title   == readString(f, headerASize)
      author  == readString(f, title.next)
      cover   == readString(f, author.next)
  IN  IF ~openFileForRead(fsys, bookBinFile, sdFault)
      THEN [outcome |-> "fail", cache |-> c]
      ELSE IF f # <<>> /\ f[1] # BOOK_CACHE_VERSION
      THEN [outcome |-> "fail", cache |-> [c EXCEPT !.bookFile = "closed"]]
      ELSE IF shortBookBin(f)
      THEN IF indet = "mismatch" /\ f = <<>>
           THEN [outcome |-> "fail", cache |-> [c EXCEPT !.bookFile = "closed"]]
           ELSE IF indet = "crash"
           THEN [outcome |-> "crash", cache |-> c]
           ELSE [outcome |-> "ok",
                 cache |-> [c EXCEPT !.loaded = TRUE, !.bookFile = "r"]]
      ELSE [outcome |-> "ok",
            cache |-> [c EXCEPT
                         !.lutOffset = readUnsigned(f, 1, SizeTWidth),
                         !.spineCount = readUnsigned(f, 1 + SizeTWidth, CountWidth),
                         !.tocCount = readUnsigned(f, 1 + SizeTWidth + CountWidth, CountWidth),
                         !.coreMetadata = [title |-> title.val, author |-> author.val,
                                           coverItemHref |-> cover.val],
                         !.loaded = TRUE, !.bookFile = "r"]]

\* bookFile.seek(lutOffset + sizeof(size_t) * index); readPod(bookFile, pos)
spineLutSlot(c, index) == c.lutOffset + SizeTWidth * index
tocLutSlot(c, index) == c.lutOffset + SizeTWidth * c.spineCount + SizeTWidth * index

getSpineEntry(c, fsys, index) ==
  IF ~c.loaded THEN DefaultSpineEntry
  ELSE IF index < 0 \/ index >= c.spineCount THEN DefaultSpineEntry
  ELSE LET f == fsys[bookBinFile].data
           spineEntryPos == readUnsigned(f, spineLutSlot(c, index), SizeTWidth)
       IN  readSpineEntry(f, spineEntryPos).entry

getTocEntry(c, fsys, index) ==
  IF ~c.loaded THEN DefaultTocEntry
  ELSE IF index < 0 \/ index >= c.tocCount THEN DefaultTocEntry
  ELSE LET f == fsys[bookBinFile].data
           tocEntryPos == readUnsigned(f, tocLutSlot(c, index), SizeTWidth)
       IN  readTocEntry(f, tocEntryPos).entry

\* the record getSpineEntry / getTocEntry reads lies inside the file
spineReadInFile(c, fsys, index) ==
  LET f == fsys[bookBinFile].data
  IN  /\ spineLutSlot(c, index) + SizeTWidth <= Len(f)
      /\ readSpineEntry(f, readUnsigned(f, spineLutSlot(c, index), SizeTWidth)).next <= Len(f)

tocReadInFile(c, fsys, index) ==
  LET f == fsys[bookBinFile].data
  IN  /\ tocLutSlot(c, index) + SizeTWidth <= Len(f)
      /\ readTocEntry(f, readUnsigned(f, tocLutSlot(c, index), SizeTWidth)).next <= Len(f)

(* Epub: readers over the cache *)

getSpineItemsCount(c) == IF ~c.loaded THEN 0 ELSE c.spineCount

getSpineItem(c, fsys, spineIndex) ==
  IF ~c.loaded THEN DefaultSpineEntry
  ELSE IF spineIndex < 0 \/ spineIndex >= c.spineCount THEN getSpineEntry(c, fsys, 0)
  ELSE getSpineEntry(c, fsys, spineIndex)

getCumulativeSpineItemSize(c, fsys, spineIndex) ==
  getSpineItem(c, fsys, spineIndex).cumulativeSize

\* Epub::getSpineIndexForTocIndex(tocIndex), tocEntry being what
\* bookMetadataCache->getTocEntry(tocIndex) has read
getSpineIndexForTocIndex(c, tocIndex, tocEntry) ==
  IF ~c.loaded THEN 0
  ELSE IF tocIndex < 0 \/ tocIndex >= c.tocCount THEN 0
  ELSE IF tocEntry.spineIndex < 0 THEN 0
  ELSE tocEntry.spineIndex

getBookSize(c, fsys) ==
  IF ~c.loaded \/ c.spineCount = 0 THEN 0
  ELSE getCumulativeSpineItemSize(c, fsys, getSpineItemsCount(c) - 1)

---------------------------------------------------------------------------
(* Initial state *)

EmptyFs == [n \in FileNames |-> NoFile]

NoSizes == [p \in ArchivePaths |-> NotFound]

NotBuilt ==
  [built |-> FALSE, spine |-> <<>>, toc |-> <<>>, sizes |-> NoSizes,
   metadata |-> EmptyMetadata]

NoRead == [kind |-> "none", index |-> 0, entry |-> DefaultSpineEntry]

\* neither parser holds an open file
NoParserFiles == [items |-> "closed", ncx |-> "closed"]

\* a book.bin left by a firmware with another BOOK_CACHE_VERSION: one spine
\* entry, no TOC entry
StaleBookBin ==
  LET opened == [beginWrite(NewCache) EXCEPT !.spineFile = "w"]
      scratch == [EmptyFs EXCEPT ![tmpSpineBinFile] = FileOf(<<>>),
                                 ![tmpTocBinFile] = FileOf(<<>>)]
      one == createSpineEntry(opened, scratch, HrefA)
      built == buildBookBin(endWrite(one.cache), one.fs,
                            [title |-> <<84, 105>>, author |-> <<>>,
                             coverItemHref |-> <<99>>],
                            [p \in ArchivePaths |-> 1000], "none")
  IN  <<StaleVersion>> \o Tail(built.fs[bookBinFile].data)

NcxPath == <<110>>          \* "n", the href of the manifest's NCX item
NcxDocument == <<60>>       \* contents of the NCX document streamed to toc.ncx

Init ==
  /\ pc = "idle"
  /\ result = FALSE
  /\ cache = NewCache
  /\ fs \in {EmptyFs, [EmptyFs EXCEPT ![bookBinFile] = FileOf(StaleBookBin)]}
  /\ archive \in [hasContainer : BOOLEAN]
  /\ tocNcxItem = <<>>
  /\ bookMetadata = EmptyMetadata
  /\ stageError = "none"
  /\ spineArgs = <<>>
  /\ tocArgs = <<>>
  /\ finalized = NotBuilt
  /\ lastRead = NoRead
  /\ parserFiles = NoParserFiles
  /\ outOfPhase = <<>>
  /\ opf = <<>>
  /\ activity = <<>>

---------------------------------------------------------------------------
(* Epub::load(), one action per stage *)

\* a stage fails: load() logs and returns false
Fail(stage) ==
  /\ pc' = "returned"
  /\ result' = FALSE
  /\ stageError' = IF stageError = "none" THEN stage ELSE stageError

\* ReaderActivity::loadEpub: a new Epub, then load() up to the cache attempt.
\* An existing book.bin is taken to open here; storage faults are modelled at
\* every open of the rebuild.
loadEpub ==
  /\ pc \in {"idle", "returned"}
  /\ \E indet \in Indeterminate :
       LET r == load(NewCache, fs, FALSE, indet)
       IN  /\ cache' = r.cache
           /\ pc' = CASE r.outcome = "ok" -> "returned"
                      [] r.outcome = "crash" -> "crashed"
                      [] OTHER -> "beginWrite"
           /\ result' = (r.outcome = "ok")
  /\ tocNcxItem' = <<>>
  /\ bookMetadata' = EmptyMetadata
  /\ stageError' = "none"
  /\ lastRead' = NoRead
  /\ parserFiles' = NoParserFiles
  /\ UNCHANGED <<fs, archive, spineArgs, tocArgs, finalized, outOfPhase>>
  /\ UNCHANGED <<opf, activity>>

\* setupCacheDir(); bookMetadataCache->beginWrite()
BeginWrite ==
  /\ pc = "beginWrite"
  /\ cache' = beginWrite(cache)
  /\ spineArgs' = <<>>
  /\ tocArgs' = <<>>
  /\ pc' = "beginContentOpfPass"
  /\ UNCHANGED <<result, fs, archive, tocNcxItem, bookMetadata, stageError,
                 finalized, lastRead, parserFiles, outOfPhase>>
  /\ UNCHANGED <<opf, activity>>

beginContentOpfPass ==
  /\ pc = "beginContentOpfPass"
  /\ \/ /\ Fail("beginContentOpfPass")
        /\ UNCHANGED <<cache, fs>>
     \/ /\ fs' = openFileForWrite(fs, tmpSpineBinFile)
        /\ cache' = [cache EXCEPT !.spineFile = "w"]
        /\ pc' = "parseContentOpf"
        /\ UNCHANGED <<result, stageError>>
  /\ UNCHANGED <<archive, tocNcxItem, bookMetadata, spineArgs, tocArgs,
                 finalized, lastRead, parserFiles, outOfPhase>>
  /\ UNCHANGED <<opf, activity>>

IgnoreMissingContainer(arch) == TRUE

\* getItemSize("META-INF/container.xml", &containerSize)
containerFound(arch) == arch.hasContainer

OpfFaults == {"none", "containerSetup", "containerStream", "containerMalformed",
              "opfSize", "opfSetup"}

\* parseContentOpf up to opfParser.setup(): findContentOpfFile, getItemSize
parseContentOpfBegin ==
  /\ pc = "parseContentOpf"
  /\ \E fault \in OpfFaults :
       IF ~containerFound(archive) THEN Fail("container")
       ELSE IF fault # "none" THEN Fail(fault)
       ELSE /\ pc' = "opfManifest"
            /\ UNCHANGED <<result, stageError>>
  /\ UNCHANGED <<cache, fs, archive, tocNcxItem, bookMetadata, spineArgs,
                 tocArgs, finalized, lastRead, parserFiles, outOfPhase>>
  /\ UNCHANGED <<opf, activity>>

\* the (id, href) pairs of the manifest as written to .items.bin
ItemStore == writeString(<<105>>) \o writeString(HrefA)

\* <manifest>: tempItemStore is opened for writing
opfManifestStart ==
  /\ pc = "opfManifest"
  /\ fs' = openFileForWrite(fs, itemCacheFile)
  /\ parserFiles' = [parserFiles EXCEPT !.items = "w"]
  /\ pc' = "opfManifestItems"
  /\ UNCHANGED <<result, cache, archive, tocNcxItem, bookMetadata, stageError,
                 spineArgs, tocArgs, finalized, lastRead, outOfPhase>>
  /\ UNCHANGED <<opf, activity>>

\* the <item> elements are written, </manifest> closes tempItemStore
opfManifestEnd ==
  /\ pc = "opfManifestItems"
  /\ fs' = appendTo(fs, itemCacheFile, parserFiles.items, ItemStore)
  /\ parserFiles' = [parserFiles EXCEPT !.items = "closed"]
  /\ pc' = "opfSpine"
  /\ UNCHANGED <<result, cache, archive, tocNcxItem, bookMetadata, stageError,
                 spineArgs, tocArgs, finalized, lastRead, outOfPhase>>
  /\ UNCHANGED <<opf, activity>>

\* <spine>: tempItemStore is opened for reading
opfSpineStart ==
  /\ pc = "opfSpine"
  /\ parserFiles' = [parserFiles EXCEPT !.items =
                       IF openFileForRead(fs, itemCacheFile, FALSE) THEN "r"
                                                                    ELSE "closed"]
  /\ pc' = "opfStream"
  /\ UNCHANGED <<result, cache, fs, archive, tocNcxItem, bookMetadata,
                 stageError, spineArgs, tocArgs, finalized, lastRead, outOfPhase>>
  /\ UNCHANGED <<opf, activity>>

\* the package document streams through the parser: one resolved itemref
opfSpineItem ==
  /\ pc = "opfStream"
  /\ Len(spineArgs) < MaxSpine
  /\ \E href \in SpineHrefs :
       LET r == createSpineEntry(cache, fs, href)
       IN  /\ cache' = r.cache
           /\ fs' = r.fs
           /\ spineArgs' = Append(spineArgs, href)
  /\ UNCHANGED <<pc, result, archive, tocNcxItem, bookMetadata, stageError,
                 tocArgs, finalized, lastRead, parserFiles, outOfPhase>>
  /\ UNCHANGED <<opf, activity>>

\* what the package document gives: title and cover, and the NCX path if the
\* manifest has an NCX item
OpfResults ==
  { [metadata |-> m, tocNcxPath |-> NcxPath] : m \in MetadataInputs }
    \cup { [metadata |-> EmptyMetadata, tocNcxPath |-> <<>>] }

\* readItemContentsToStream(contentOpfFilePath, opfParser, 1024) returns;
\* ~ContentOpfParser closes tempItemStore and removes .items.bin
opfStreamEnd ==
  /\ pc = "opfStream"
  /\ \/ /\ Fail("opfStream")
        /\ UNCHANGED <<tocNcxItem, bookMetadata>>
     \/ /\ \E parsed \in OpfResults :
             /\ bookMetadata' = parsed.metadata
             /\ tocNcxItem' = IF parsed.tocNcxPath # <<>> THEN parsed.tocNcxPath
                                                         ELSE tocNcxItem
        /\ pc' = "endContentOpfPass"
        /\ UNCHANGED <<result, stageError>>
  /\ parserFiles' = [parserFiles EXCEPT !.items = "closed"]
  /\ fs' = [fs EXCEPT ![itemCacheFile] = NoFile]
  /\ UNCHANGED <<cache, archive, spineArgs, tocArgs, finalized, lastRead,
                 outOfPhase>>
  /\ UNCHANGED <<opf, activity>>

EndContentOpfPassKeepingSpineFile ==
  /\ pc = "endContentOpfPass"
  /\ pc' = "beginTocPass"
  /\ UNCHANGED <<result, cache, fs, archive, tocNcxItem, bookMetadata,
                 stageError, spineArgs, tocArgs, finalized, lastRead,
                 parserFiles, outOfPhase>>
  /\ UNCHANGED <<opf, activity>>

EndContentOpfPassThenEndWrite ==
  /\ pc = "endContentOpfPass"
  /\ cache' = [cache EXCEPT !.spineFile = "closed"]
  /\ pc' = "endWrite"
  /\ UNCHANGED <<result, fs, archive, tocNcxItem, bookMetadata, stageError,
                 spineArgs, tocArgs, finalized, lastRead, parserFiles, outOfPhase>>
  /\ UNCHANGED <<opf, activity>>

endContentOpfPass ==
  /\ pc = "endContentOpfPass"
  /\ cache' = [cache EXCEPT !.spineFile = "closed"]
  /\ pc' = "beginTocPass"
  /\ UNCHANGED <<result, fs, archive, tocNcxItem, bookMetadata, stageError,
                 spineArgs, tocArgs, finalized, lastRead, parserFiles, outOfPhase>>
  /\ UNCHANGED <<opf, activity>>

beginTocPass ==
  /\ pc = "beginTocPass"
  /\ \E fault \in {"none", "openSpine", "openToc"} :
       IF ~openFileForRead(fs, tmpSpineBinFile, fault = "openSpine")
       THEN Fail("beginTocPass") /\ UNCHANGED <<cache, fs>>
       ELSE IF fault = "openToc"
       THEN Fail("beginTocPass") /\ UNCHANGED <<cache, fs>>
       ELSE /\ fs' = openFileForWrite(fs, tmpTocBinFile)
            /\ cache' = [cache EXCEPT !.spineFile = "r", !.tocFile = "w"]
            /\ pc' = "parseTocNcx"
            /\ UNCHANGED <<result, stageError>>
  /\ UNCHANGED <<archive, tocNcxItem, bookMetadata, spineArgs, tocArgs,
                 finalized, lastRead, parserFiles, outOfPhase>>
  /\ UNCHANGED <<opf, activity>>

NcxFaults == {"none", "openTmpWrite", "streamNcx", "openTmpRead", "ncxSetup",
              "ncxMalloc"}

\* parseTocNcxFile without the test of tocNcxItem.empty()
ParseTocNcxWithoutItemCheck ==
  /\ pc = "parseTocNcx"
  /\ \E fault \in NcxFaults :
       IF fault = "openTmpWrite"
       THEN Fail("openTmpWrite") /\ UNCHANGED <<fs, parserFiles>>
       ELSE IF fault = "streamNcx"
       THEN /\ fs' = [fs EXCEPT ![tmpNcxFile] = FileOf(<<>>)]
            /\ parserFiles' = [parserFiles EXCEPT !.ncx = "r"]
            /\ stageError' = "streamNcx"
            /\ pc' = "ncxStream"
            /\ UNCHANGED result
       ELSE IF fault # "none"
       THEN /\ fs' = [fs EXCEPT ![tmpNcxFile] = FileOf(NcxDocument)]
            /\ Fail(fault)
            /\ UNCHANGED parserFiles
       ELSE /\ fs' = [fs EXCEPT ![tmpNcxFile] = FileOf(NcxDocument)]
            /\ parserFiles' = [parserFiles EXCEPT !.ncx = "r"]
            /\ pc' = "ncxStream"
            /\ UNCHANGED <<result, stageError>>
  /\ UNCHANGED <<cache, archive, tocNcxItem, bookMetadata, spineArgs, tocArgs,
                 finalized, lastRead, outOfPhase>>
  /\ UNCHANGED <<opf, activity>>

\* parseTocNcxFile up to the read loop.  The value returned by
\* readItemContentsToStream(tocNcxItem, tempNcxFile, 1024) is not looked at;
\* a stream that fails has written nothing to toc.ncx.
parseTocNcxBegin ==
  /\ pc = "parseTocNcx"
  /\ \E fault \in NcxFaults :
       IF tocNcxItem = <<>> THEN Fail("noNcx") /\ UNCHANGED <<fs, parserFiles>>
       ELSE IF fault = "openTmpWrite"
       THEN Fail("openTmpWrite") /\ UNCHANGED <<fs, parserFiles>>
       ELSE IF fault = "streamNcx"
       THEN /\ fs' = [fs EXCEPT ![tmpNcxFile] = FileOf(<<>>)]
            /\ parserFiles' = [parserFiles EXCEPT !.ncx = "r"]
            /\ stageError' = "streamNcx"
            /\ pc' = "ncxStream"
            /\ UNCHANGED result
       ELSE IF fault # "none"
       THEN /\ fs' = [fs EXCEPT ![tmpNcxFile] = FileOf(NcxDocument)]
            /\ Fail(fault)
            /\ UNCHANGED parserFiles
       ELSE /\ fs' = [fs EXCEPT ![tmpNcxFile] = FileOf(NcxDocument)]
            /\ parserFiles' = [parserFiles EXCEPT !.ncx = "r"]
            /\ pc' = "ncxStream"
            /\ UNCHANGED <<result, stageError>>
  /\ UNCHANGED <<cache, archive, tocNcxItem, bookMetadata, spineArgs, tocArgs,
                 finalized, lastRead, outOfPhase>>
  /\ UNCHANGED <<opf, activity>>

\* the read loop hands the parser a navigation point
ncxNavPoint ==
  /\ pc = "ncxStream"
  /\ fs[tmpNcxFile].data # <<>>
  /\ Len(tocArgs) < MaxToc
  /\ \E t \in TocInputs :
       LET r == createTocEntry(cache, fs, t.title, t.href, t.anchor, t.level)
       IN  /\ cache' = r.cache
           /\ fs' = r.fs
           /\ tocArgs' = Append(tocArgs, t)
  /\ UNCHANGED <<pc, result, archive, tocNcxItem, bookMetadata, stageError,
                 spineArgs, finalized, lastRead, parserFiles, outOfPhase>>
  /\ UNCHANGED <<opf, activity>>

\* the read loop ends: all data processed, or ncxParser.write came up short
ncxStreamEnd ==
  /\ pc = "ncxStream"
  /\ \/ /\ fs[tmpNcxFile].data # <<>>
        /\ Fail("ncxParse")
        /\ UNCHANGED fs
     \/ /\ fs' = [fs EXCEPT ![tmpNcxFile] = NoFile]
        /\ pc' = "endTocPass"
        /\ UNCHANGED <<result, stageError>>
  /\ parserFiles' = [parserFiles EXCEPT !.ncx = "closed"]
  /\ UNCHANGED <<cache, archive, tocNcxItem, bookMetadata, spineArgs, tocArgs,
                 finalized, lastRead, outOfPhase>>
  /\ UNCHANGED <<opf, activity>>

endTocPass ==
  /\ pc = "endTocPass"
  /\ cache' = [cache EXCEPT !.tocFile = "closed", !.spineFile = "closed"]
  /\ pc' = "endWrite"
  /\ UNCHANGED <<result, fs, archive, tocNcxItem, bookMetadata, stageError,
                 spineArgs, tocArgs, finalized, lastRead, parserFiles, outOfPhase>>
  /\ UNCHANGED <<opf, activity>>

EndWrite ==
  /\ pc = "endWrite"
  /\ IF endWriteOk(cache)
     THEN /\ cache' = endWrite(cache)
          /\ pc' = "buildBookBin"
          /\ UNCHANGED <<result, stageError>>
     ELSE Fail("endWrite") /\ UNCHANGED cache
  /\ UNCHANGED <<fs, archive, tocNcxItem, bookMetadata, spineArgs, tocArgs,
                 finalized, lastRead, parserFiles, outOfPhase>>
  /\ UNCHANGED <<opf, activity>>

BuildBookBin ==
  /\ pc = "buildBookBin"
  /\ \E fault \in BuildFaults, sizes \in SizeAnswers :
       LET r == buildBookBin(cache, fs, bookMetadata, sizes, fault)
       IN  /\ cache' = r.cache
           /\ fs' = r.fs
           /\ IF r.ok
              THEN /\ pc' = "cleanupTmpFiles"
                   /\ finalized' = [built |-> TRUE, spine |-> spineArgs,
                                    toc |-> tocArgs, sizes |-> sizes,
                                    metadata |-> bookMetadata]
                   /\ UNCHANGED <<result, stageError>>
              ELSE /\ Fail("buildBookBin")
                   /\ finalized' = IF r.fs = fs THEN finalized ELSE NotBuilt
  /\ UNCHANGED <<archive, tocNcxItem, bookMetadata, spineArgs, tocArgs, lastRead, parserFiles, outOfPhase>>
  /\ UNCHANGED <<opf, activity>>

CleanupTmpFiles ==
  /\ pc = "cleanupTmpFiles"
  /\ fs' = cleanupTmpFiles(fs)
  /\ pc' = "reload"
  /\ UNCHANGED <<result, cache, archive, tocNcxItem, bookMetadata, stageError,
                 spineArgs, tocArgs, finalized, lastRead, parserFiles, outOfPhase>>
  /\ UNCHANGED <<opf, activity>>

\* bookMetadataCache.reset(new BookMetadataCache(cachePath)); load()
Reload ==
  /\ pc = "reload"
  /\ \E sdFault \in BOOLEAN :
       LET r == load(NewCache, fs, sdFault, "loaded")
       IN  /\ cache' = r.cache
           /\ IF r.outcome = "ok"
              THEN pc' = "returned" /\ result' = TRUE /\ UNCHANGED stageError
              ELSE Fail("reload")
  /\ UNCHANGED <<fs, archive, tocNcxItem, bookMetadata, spineArgs, tocArgs,
                 finalized, lastRead, parserFiles, outOfPhase>>
  /\ UNCHANGED <<opf, activity>>

\* the device restarts after a crash
Reboot ==
  /\ pc = "crashed"
  /\ pc' = "idle"
  /\ cache' = NewCache
  /\ result' = FALSE
  /\ UNCHANGED <<fs, archive, tocNcxItem, bookMetadata, stageError, spineArgs,
                 tocArgs, finalized, lastRead, parserFiles, outOfPhase>>
  /\ UNCHANGED <<opf, activity>>

(* Reads of the cache once load() has returned *)

GarbageSpineEntries == {DefaultSpineEntry, SpineEntry(HrefZ, 7, 0)}
GarbageTocEntries == {DefaultTocEntry, TocEntry(HrefZ, HrefZ, <<>>, 9, 0)}

\* the indices asked for: around the valid range of a loaded cache, 0 of one
\* whose load() failed
ReadIndices(max) == IF cache.loaded THEN (-1)..max ELSE {0}

GetSpineEntry ==
  /\ pc = "returned"
  /\ \E index \in ReadIndices(MaxSpine) :
       IF cache.loaded /\ index >= 0 /\ index < cache.spineCount
          /\ ~spineReadInFile(cache, fs, index)
       THEN \E e \in GarbageSpineEntries :
              lastRead' = [kind |-> "spine", index |-> index, entry |-> e]
       ELSE lastRead' = [kind |-> "spine", index |-> index,
                         entry |-> getSpineEntry(cache, fs, index)]
  /\ UNCHANGED <<pc, result, cache, fs, archive, tocNcxItem, bookMetadata,
                 stageError, spineArgs, tocArgs, finalized,
                 parserFiles, outOfPhase>>
  /\ UNCHANGED <<opf, activity>>

GetTocEntry ==
  /\ pc = "returned"
  /\ \E index \in ReadIndices(MaxToc) :
       IF cache.loaded /\ index >= 0 /\ index < cache.tocCount
          /\ ~tocReadInFile(cache, fs, index)
       THEN \E e \in GarbageTocEntries :
              lastRead' = [kind |-> "toc", index |-> index, entry |-> e]
       ELSE lastRead' = [kind |-> "toc", index |-> index,
                         entry |-> getTocEntry(cache, fs, index)]
  /\ UNCHANGED <<pc, result, cache, fs, archive, tocNcxItem, bookMetadata,
                 stageError, spineArgs, tocArgs, finalized,
                 parserFiles, outOfPhase>>
  /\ UNCHANGED <<opf, activity>>

Next ==
  \/ loadEpub
  \/ BeginWrite
  \/ beginContentOpfPass
  \/ parseContentOpfBegin
  \/ opfManifestStart
  \/ opfManifestEnd
  \/ opfSpineStart
  \/ opfSpineItem
  \/ opfStreamEnd
  \/ endContentOpfPass
  \/ beginTocPass
  \/ parseTocNcxBegin
  \/ ncxNavPoint
  \/ ncxStreamEnd
  \/ endTocPass
  \/ EndWrite
  \/ BuildBookBin
  \/ CleanupTmpFiles
  \/ Reload
  \/ Reboot
  \/ GetSpineEntry
  \/ GetTocEntry

Spec == Init /\ [][Next]_vars

---------------------------------------------------------------------------
(* The builder's public methods called directly on a BookMetadataCache: the
   begin/end methods in the order of Epub::load(), the two creators in any
   state *)

ApiStates ==
  {"Idle", "Building", "ManifestSpinePass", "BetweenPasses", "TocPass",
   "TocPassEnded", "Merging", "Finalized", "Serving"}

InitApi ==
  /\ pc = "Idle"
  /\ result = FALSE
  /\ cache = NewCache
  /\ fs = EmptyFs
  /\ archive = [hasContainer |-> TRUE]
  /\ tocNcxItem = <<>>
  /\ bookMetadata = [title |-> <<84, 105>>, author |-> <<>>, coverItemHref |-> <<99>>]
  /\ stageError = "none"
  /\ spineArgs = <<>>
  /\ tocArgs = <<>>
  /\ finalized = NotBuilt
  /\ lastRead = NoRead
  /\ parserFiles = NoParserFiles
  /\ outOfPhase = <<>>
  /\ opf = <<>>
  /\ activity = <<>>

ApiBeginWrite ==
  /\ pc = "Idle"
  /\ cache' = beginWrite(cache)
  /\ pc' = "Building"
  /\ UNCHANGED <<result, fs, archive, tocNcxItem, bookMetadata, stageError,
                 spineArgs, tocArgs, finalized, lastRead, parserFiles, outOfPhase>>
  /\ UNCHANGED <<opf, activity>>

ApiBeginContentOpfPass ==
  /\ pc = "Building"
  /\ fs' = openFileForWrite(fs, tmpSpineBinFile)
  /\ cache' = [cache EXCEPT !.spineFile = "w"]
  /\ pc' = "ManifestSpinePass"
  /\ UNCHANGED <<result, archive, tocNcxItem, bookMetadata, stageError,
                 spineArgs, tocArgs, finalized, lastRead, parserFiles, outOfPhase>>
  /\ UNCHANGED <<opf, activity>>

ApiEndContentOpfPass ==
  /\ pc = "ManifestSpinePass"
  /\ cache' = [cache EXCEPT !.spineFile = "closed"]
  /\ pc' = "BetweenPasses"
  /\ UNCHANGED <<result, fs, archive, tocNcxItem, bookMetadata, stageError,
                 spineArgs, tocArgs, finalized, lastRead, parserFiles, outOfPhase>>
  /\ UNCHANGED <<opf, activity>>

ApiBeginTocPass ==
  /\ pc = "BetweenPasses"
  /\ openFileForRead(fs, tmpSpineBinFile, FALSE)
  /\ fs' = openFileForWrite(fs, tmpTocBinFile)
  /\ cache' = [cache EXCEPT !.spineFile = "r", !.tocFile = "w"]
  /\ pc' = "TocPass"
  /\ UNCHANGED <<result, archive, tocNcxItem, bookMetadata, stageError,
                 spineArgs, tocArgs, finalized, lastRead, parserFiles, outOfPhase>>
  /\ UNCHANGED <<opf, activity>>

ApiEndTocPass ==
  /\ pc = "TocPass"
  /\ cache' = [cache EXCEPT !.tocFile = "closed", !.spineFile = "closed"]
  /\ pc' = "TocPassEnded"
  /\ UNCHANGED <<result, fs, archive, tocNcxItem, bookMetadata, stageError,
                 spineArgs, tocArgs, finalized, lastRead, parserFiles, outOfPhase>>
  /\ UNCHANGED <<opf, activity>>

ApiEndWrite ==
  /\ pc = "TocPassEnded"
  /\ endWriteOk(cache)
  /\ cache' = endWrite(cache)
  /\ pc' = "Merging"
  /\ UNCHANGED <<result, fs, archive, tocNcxItem, bookMetadata, stageError,
                 spineArgs, tocArgs, finalized, lastRead, parserFiles, outOfPhase>>
  /\ UNCHANGED <<opf, activity>>

\* every archive item is found, with the same size
ApiSizes == [p \in ArchivePaths |-> 1000]

ApiBuildBookBin ==
  /\ pc = "Merging"
  /\ LET r == buildBookBin(cache, fs, bookMetadata, ApiSizes, "none")
     IN  /\ cache' = r.cache
         /\ fs' = r.fs
         /\ pc' = IF r.ok THEN "Finalized" ELSE "Failed"
         /\ finalized' = IF r.ok
                         THEN [built |-> TRUE, spine |-> spineArgs,
                               toc |-> tocArgs, sizes |-> ApiSizes,
                               metadata |-> bookMetadata]
                         ELSE NotBuilt
  /\ UNCHANGED <<result, archive, tocNcxItem, bookMetadata, stageError,
                 spineArgs, tocArgs, lastRead, parserFiles, outOfPhase>>
  /\ UNCHANGED <<opf, activity>>

\* a new BookMetadataCache on the same cache directory, then load()
ApiLoad ==
  /\ pc = "Finalized"
  /\ LET r == load(NewCache, fs, FALSE, "loaded")
     IN  /\ cache' = r.cache
         /\ pc' = IF r.outcome = "ok" THEN "Serving" ELSE "Failed"
  /\ UNCHANGED <<result, fs, archive, tocNcxItem, bookMetadata, stageError,
                 spineArgs, tocArgs, finalized, lastRead, parserFiles, outOfPhase>>
  /\ UNCHANGED <<opf, activity>>

\* createSpineEntry(href): a call of the manifest/spine pass is recorded in
\* spineArgs, a call in any other state in outOfPhase
ApiCreateSpineEntry ==
  /\ pc \in ApiStates
  /\ IF pc = "ManifestSpinePass"
     THEN Len(spineArgs) < MaxSpine
     ELSE Len(outOfPhase) < MaxOutOfPhase
  /\ \E href \in SpineHrefs :
       LET r == createSpineEntry(cache, fs, href)
       IN  /\ cache' = r.cache
           /\ fs' = r.fs
           /\ IF pc = "ManifestSpinePass"
              THEN spineArgs' = Append(spineArgs, href) /\ UNCHANGED outOfPhase
              ELSE /\ outOfPhase' = Append(outOfPhase, <<"createSpineEntry", pc>>)
                   /\ UNCHANGED spineArgs
  /\ UNCHANGED <<pc, result, archive, tocNcxItem, bookMetadata, stageError,
                 tocArgs, finalized, lastRead, parserFiles>>
  /\ UNCHANGED <<opf, activity>>

\* createTocEntry(title, href, anchor, level): a call of the TOC pass is
\* recorded in tocArgs, a call in any other state in outOfPhase
ApiCreateTocEntry ==
  /\ pc \in ApiStates
  /\ IF pc = "TocPass"
     THEN Len(tocArgs) < MaxToc
     ELSE Len(outOfPhase) < MaxOutOfPhase
  /\ \E t \in TocInputs :
       LET r == createTocEntry(cache, fs, t.title, t.href, t.anchor, t.level)
       IN  /\ cache' = r.cache
           /\ fs' = r.fs
           /\ IF pc = "TocPass"
              THEN tocArgs' = Append(tocArgs, t) /\ UNCHANGED outOfPhase
              ELSE /\ outOfPhase' = Append(outOfPhase, <<"createTocEntry", pc>>)
                   /\ UNCHANGED tocArgs
  /\ UNCHANGED <<pc, result, archive, tocNcxItem, bookMetadata, stageError,
                 spineArgs, finalized, lastRead, parserFiles>>
  /\ UNCHANGED <<opf, activity>>

NextApi ==
  \/ ApiBeginWrite
  \/ ApiBeginContentOpfPass
  \/ ApiCreateSpineEntry
  \/ ApiEndContentOpfPass
  \/ ApiBeginTocPass
  \/ ApiCreateTocEntry
  \/ ApiEndTocPass
  \/ ApiEndWrite
  \/ ApiBuildBookBin
  \/ ApiLoad

SpecApi == InitApi /\ [][NextApi]_vars

---------------------------------------------------------------------------
(* ContentOpfParser: the package document pass of Epub::parseContentOpf.  The
   document arrives as the element events Expat hands to startElement and
   endElement; it is well formed, its metadata comes before its one manifest
   and its spine follows the manifest. *)

MEDIA_TYPE_NCX == "application/x-dtbncx+xml"

\* Epub::contentBasePath, "O/"
baseContentPath == <<79, 47>>

\* strcmp(name, local) == 0 || strcmp(name, "opf:" local) == 0
Named(name, local) == name.local = local /\ name.prefix \in {"", "opf"}

\* strcmp(name, "dc:title") == 0
DcTitle(name) == name = [prefix |-> "dc", local |-> "title"]

\* the scan of tempItemStore from offset 0: <<href>> of the first pair whose
\* id is idref, <<>> when available() ends the scan
RECURSIVE scanItemStore(_, _, _)
scanItemStore(f, pos, idref) ==
  IF pos >= Len(f) THEN <<>>
  ELSE LET itemId == readString(f, pos)
           href   == readString(f, itemId.next)
       IN  IF itemId.val = idref THEN <<href.val>>
           ELSE scanItemStore(f, href.next, idref)

\* self: [state, coverItemId, coverItemHref, tocNcxPath, tempItemStore, fs,
\* cache]; the result adds created, the hrefs handed to createSpineEntry
\* the cover branch of the item handler, taking the first item of the id
FirstCoverItemWins(coverItemHref, coverItemId, itemId, href) ==
  IF itemId = coverItemId /\ coverItemHref = <<>> THEN href ELSE coverItemHref

\* if (itemId == self->coverItemId) self->coverItemHref = href
coverHrefAfterItem(coverItemHref, coverItemId, itemId, href) ==
  IF itemId = coverItemId THEN href ELSE coverItemHref

\* the NCX branch of the item handler, taking every NCX item
LastNcxItemWins(tocNcxPath, mediaType, href) ==
  IF mediaType = MEDIA_TYPE_NCX THEN href ELSE tocNcxPath

\* if (mediaType == MEDIA_TYPE_NCX): the path is taken if none was taken yet
tocNcxPathAfterItem(tocNcxPath, mediaType, href) ==
  IF mediaType = MEDIA_TYPE_NCX /\ tocNcxPath = <<>> THEN href ELSE tocNcxPath

startElement(self, name, atts, sdFault) ==
  LET same == self @@ [created |-> <<>>]
  IN  IF self.state = "START" /\ Named(name, "package")
      THEN [same EXCEPT !.state = "IN_PACKAGE"]
      ELSE IF self.state = "IN_PACKAGE" /\ Named(name, "metadata")
      THEN [same EXCEPT !.state = "IN_METADATA"]
      ELSE IF self.state = "IN_METADATA" /\ DcTitle(name)
      THEN [same EXCEPT !.state = "IN_BOOK_TITLE"]
      ELSE IF self.state = "IN_PACKAGE" /\ Named(name, "manifest")
      THEN IF sdFault
           THEN [same EXCEPT !.state = "IN_MANIFEST", !.tempItemStore = "closed"]
           ELSE [same EXCEPT !.state = "IN_MANIFEST", !.tempItemStore = "w",
                             !.fs = openFileForWrite(self.fs, itemCacheFile)]
      ELSE IF self.state = "IN_PACKAGE" /\ Named(name, "spine")
      THEN [same EXCEPT !.state = "IN_SPINE",
                        !.tempItemStore =
                           IF openFileForRead(self.fs, itemCacheFile, sdFault)
                           THEN "r" ELSE "closed"]
      ELSE IF self.state = "IN_METADATA" /\ Named(name, "meta")
      THEN IF atts.name = "cover"
           THEN [same EXCEPT !.coverItemId = atts.content]
           ELSE same
      ELSE IF self.state = "IN_MANIFEST" /\ Named(name, "item")
      THEN LET href == baseContentPath \o atts.href
           IN  [same EXCEPT
                  !.fs = appendTo(self.fs, itemCacheFile, self.tempItemStore,
                                  writeString(atts.id) \o writeString(href)),
                  !.coverItemHref = coverHrefAfterItem(@, self.coverItemId, atts.id, href),
                  !.tocNcxPath = tocNcxPathAfterItem(@, atts.mediaType, href)]
      ELSE IF self.state = "IN_SPINE" /\ Named(name, "itemref")
      THEN LET found == IF self.tempItemStore = "r"
                        THEN scanItemStore(self.fs[itemCacheFile].data, 0, atts.idref)
                        ELSE <<>>
               r == createSpineEntry(self.cache, self.fs, found[1])
           IN  IF found = <<>> THEN same
               ELSE [same EXCEPT !.cache = r.cache, !.fs = r.fs, !.created = found]
      ELSE same

\* endElement leaving the package on the end tag of its metadata
EndElementLeavingPackage(self, name) ==
  IF self.state = "IN_METADATA" /\ Named(name, "metadata")
  THEN [self EXCEPT !.state = "START"]
  ELSE self

endElement(self, name) ==
  IF self.state = "IN_SPINE" /\ Named(name, "spine")
  THEN [self EXCEPT !.state = "IN_PACKAGE", !.tempItemStore = "closed"]
  ELSE IF self.state = "IN_MANIFEST" /\ Named(name, "manifest")
  THEN [self EXCEPT !.state = "IN_PACKAGE", !.tempItemStore = "closed"]
  ELSE IF self.state = "IN_BOOK_TITLE" /\ DcTitle(name)
  THEN [self EXCEPT !.state = "IN_METADATA"]
  ELSE IF self.state = "IN_METADATA" /\ Named(name, "metadata")
  THEN [self EXCEPT !.state = "IN_PACKAGE"]
  ELSE IF self.state = "IN_PACKAGE" /\ Named(name, "package")
  THEN [self EXCEPT !.state = "START"]
  ELSE self

(* The document: element names, attributes and the events of a pass *)

ItemIds == {<<49>>, <<50>>}                    \* "1", "2"

\* the items a manifest may hold: two of one id, two of the NCX media type,
\* and one without an id attribute, whose itemId stays the empty string
ItemAtts ==
  { [id |-> <<49>>, href |-> <<97>>, mediaType |-> "application/xhtml+xml"],
    [id |-> <<49>>, href |-> <<98>>, mediaType |-> MEDIA_TYPE_NCX],
    [id |-> <<50>>, href |-> <<99>>, mediaType |-> MEDIA_TYPE_NCX],
    [id |-> <<>>, href |-> <<100>>, mediaType |-> "application/xhtml+xml"] }

MetaAtts ==
  { [name |-> "cover", content |-> <<49>>], [name |-> "cover", content |-> <<50>>],
    [name |-> "generator", content |-> <<49>>] }

\* the names an element of the package vocabulary may be written with; the
\* position in the document keeps the local name, one handler call is made
\* per way of writing it
Els(local) == {[prefix |-> p, local |-> local] : p \in {"", "opf"}}

\* an element of another vocabulary, and the title element
Foreign == [prefix |-> "x", local |-> "manifest"]
Title == [prefix |-> "dc", local |-> "title"]

\* the ways of writing the element kept as kind in the position
Written(kind) ==
  IF kind = "foreign" THEN {Foreign} ELSE IF kind = "title" THEN {Title}
  ELSE Els(kind)

\* the innermost open element
Parent == IF opf.open = <<>> THEN "none" ELSE opf.open[Len(opf.open)]

\* the elements that may start here: package is the root, its sections are
\* its children, metadata comes before the one manifest and the manifest
\* before the one spine; the metadata may hold a dc:title, the package a
\* foreign element, and these hold nothing
StartKinds ==
  IF opf.open = <<>> THEN {"package"}
  ELSE IF Parent = "package"
  THEN {"foreign"}
         \cup (IF opf.sections = {} THEN {"metadata", "manifest"} ELSE {})
         \cup (IF opf.sections = {"manifest"} THEN {"spine"} ELSE {})
  ELSE IF Parent = "metadata" THEN {"title"}
  ELSE {}

\* item, itemref and meta elements have no children; they are children of
\* package or of one of its sections: in its own section an element comes
\* with every choice of attributes, elsewhere with one
Leaves ==
  IF Parent \notin {"package", "metadata", "manifest", "spine"} THEN {}
  ELSE {[kind |-> "item", atts |-> a] : a \in
          IF Parent # "manifest"
          THEN {[id |-> <<49>>, href |-> <<97>>, mediaType |-> MEDIA_TYPE_NCX]}
          ELSE IF Len(opf.manifest) >= MaxItems THEN {} ELSE ItemAtts}
       \cup {[kind |-> "itemref", atts |-> [idref |-> i]] : i \in
          IF Parent # "spine" THEN {<<49>>}
          ELSE IF Len(opf.itemrefs) >= MaxSpine THEN {} ELSE ItemIds}
       \cup {[kind |-> "meta", atts |-> a] : a \in
          IF Parent # "metadata" THEN {[name |-> "cover", content |-> <<49>>]}
          ELSE MetaAtts}

\* ContentOpfParser(cachePath, baseContentPath, size, cache) after setup(),
\* and what the document has held so far: open elements, sections started,
\* the items of the manifest each with the cover ids declared before it, the
\* idrefs of the spine, the cover id the metadata declared last and all the
\* cover ids it declared, whether an open of the item store failed, whether
\* write was called after the parser was released
NewOpfParser ==
  [state |-> "START", parser |-> TRUE, coverItemId |-> <<>>,
   coverItemHref |-> <<>>, tocNcxPath |-> <<>>, returned |-> TRUE,
   open |-> <<>>, sections |-> {}, done |-> FALSE,
   manifest |-> <<>>, itemrefs |-> <<>>, cover |-> <<>>, declared |-> {},
   storeFault |-> FALSE, late |-> FALSE]

\* ~ContentOpfParser: the parser and the document are gone, what stays is
\* what write returned last and whether an open of the item store failed
Destroyed ==
  [NewOpfParser EXCEPT !.parser = FALSE, !.returned = opf.returned,
                       !.done = TRUE, !.storeFault = opf.storeFault]

\* the parser as startElement and endElement see it
Self ==
  [state |-> opf.state, coverItemId |-> opf.coverItemId,
   coverItemHref |-> opf.coverItemHref, tocNcxPath |-> opf.tocNcxPath,
   tempItemStore |-> parserFiles.items, fs |-> fs, cache |-> cache]

\* the handlers have run and left r
Handled(r, created) ==
  /\ fs' = r.fs
  /\ cache' = r.cache
  /\ parserFiles' = [parserFiles EXCEPT !.items = r.tempItemStore]
  /\ spineArgs' = spineArgs \o created

Parsed(r) ==
  [opf EXCEPT !.state = r.state, !.coverItemId = r.coverItemId,
              !.coverItemHref = r.coverItemHref, !.tocNcxPath = r.tocNcxPath,
              !.returned = TRUE]

\* ContentOpfParser::write with the parser released
WriteToReleasedParser(handled) == handled

\* ContentOpfParser::write(buffer, size): the handlers run on what the buffer
\* holds and write returns size; without a parser it returns 0 at once
write(handled) ==
  IF opf.parser THEN handled
  ELSE /\ opf' = [opf EXCEPT !.returned = FALSE, !.late = TRUE]
       /\ UNCHANGED <<fs, cache, parserFiles, spineArgs>>

InitOpf ==
  /\ pc = "opfWrite"
  /\ result = FALSE
  /\ cache = [beginWrite(NewCache) EXCEPT !.spineFile = "w"]
  /\ fs = openFileForWrite(EmptyFs, tmpSpineBinFile)
  /\ archive = [hasContainer |-> TRUE]
  /\ tocNcxItem = <<>>
  /\ bookMetadata = EmptyMetadata
  /\ stageError = "none"
  /\ spineArgs = <<>>
  /\ tocArgs = <<>>
  /\ finalized = NotBuilt
  /\ lastRead = NoRead
  /\ parserFiles = NoParserFiles
  /\ outOfPhase = <<>>
  /\ opf = NewOpfParser
  /\ activity = <<>>

\* ContentOpfParser::write with a start tag in the buffer
opfStartTag ==
  /\ pc = "opfWrite" /\ ~opf.done
  /\ \E kind \in StartKinds :
     \E name \in Written(kind) :
     \E sdFault \in (IF kind \in {"manifest", "spine"} THEN BOOLEAN ELSE {FALSE}) :
       LET r == startElement(Self, name, <<>>, sdFault)
       IN  write(/\ Handled(r, r.created)
                 /\ opf' = [Parsed(r) EXCEPT
                              !.open = Append(@, kind),
                              !.sections = @ \cup ({"manifest", "spine"} \cap {kind}),
                              !.storeFault = @ \/ sdFault])
  /\ UNCHANGED <<pc, result, archive, tocNcxItem, bookMetadata, stageError,
                 tocArgs, finalized, lastRead, outOfPhase, activity>>

\* ContentOpfParser::write with an element without children in the buffer
opfLeaf ==
  /\ pc = "opfWrite" /\ ~opf.done
  /\ \E leaf \in Leaves :
     \E name \in Els(leaf.kind) :
       LET started == startElement(Self, name, leaf.atts, FALSE)
           r == endElement([x \in DOMAIN Self |-> started[x]], name)
       IN  write(/\ Handled(r, started.created)
                 /\ opf' = [Parsed(r) EXCEPT
                             !.manifest =
                                IF leaf.kind = "item" /\ Parent = "manifest"
                                THEN Append(@, leaf.atts @@ [cover |-> opf.cover,
                                                             declared |-> opf.declared])
                                ELSE @,
                             !.itemrefs =
                                IF leaf.kind = "itemref" /\ Parent = "spine"
                                THEN Append(@, leaf.atts.idref) ELSE @,
                             !.cover =
                                IF leaf.kind = "meta" /\ Parent = "metadata"
                                   /\ leaf.atts.name = "cover"
                                THEN leaf.atts.content ELSE @,
                             !.declared =
                                IF leaf.kind = "meta" /\ Parent = "metadata"
                                   /\ leaf.atts.name = "cover"
                                THEN @ \cup {leaf.atts.content} ELSE @])
  /\ UNCHANGED <<pc, result, archive, tocNcxItem, bookMetadata, stageError,
                 tocArgs, finalized, lastRead, outOfPhase, activity>>

\* ContentOpfParser::write with the end tag of the innermost open element
opfEndTag ==
  /\ pc = "opfWrite" /\ ~opf.done
  /\ opf.open # <<>>
  /\ \E name \in Written(Parent) :
     LET rest == SubSeq(opf.open, 1, Len(opf.open) - 1)
         r == endElement(Self, name)
     IN  write(/\ Handled(r, <<>>)
               /\ opf' = [Parsed(r) EXCEPT !.open = rest, !.done = (rest = <<>>)])
  /\ UNCHANGED <<pc, result, archive, tocNcxItem, bookMetadata, stageError,
                 tocArgs, finalized, lastRead, outOfPhase, activity>>

\* ContentOpfParser::write with malformed XML in the buffer, or no buffer:
\* the parser is freed and write returns 0
opfParseError ==
  /\ pc = "opfWrite" /\ ~opf.done
  /\ opf.parser
  /\ opf' = [opf EXCEPT !.parser = FALSE, !.returned = FALSE]
  /\ UNCHANGED <<pc, result, cache, fs, archive, tocNcxItem, bookMetadata,
                 stageError, spineArgs, tocArgs, finalized, lastRead,
                 parserFiles, outOfPhase, activity>>

\* readItemContentsToStream(contentOpfFilePath, opfParser, 1024) returns and
\* parseContentOpf with it; ~ContentOpfParser closes and removes .items.bin.
\* What the stream returns once a write came up short is decided outside
\* this code: both values are taken.
opfPassEnd ==
  /\ pc = "opfWrite"
  /\ opf.done \/ ~opf.parser
  /\ \E ok \in (IF opf.parser THEN {TRUE} ELSE BOOLEAN) :
       IF ok
       THEN /\ bookMetadata' = [title |-> <<>>, author |-> <<>>,
                                coverItemHref |-> opf.coverItemHref]
            /\ tocNcxItem' = IF opf.tocNcxPath # <<>> THEN opf.tocNcxPath
                                                      ELSE tocNcxItem
            /\ pc' = "opfParsed"
            /\ UNCHANGED <<result, stageError>>
       ELSE /\ Fail("opfStream")
            /\ UNCHANGED <<bookMetadata, tocNcxItem>>
  /\ parserFiles' = [parserFiles EXCEPT !.items = "closed"]
  /\ fs' = [fs EXCEPT ![itemCacheFile] = NoFile]
  /\ opf' = Destroyed
  /\ UNCHANGED <<cache, archive, spineArgs, tocArgs, finalized, lastRead,
                 outOfPhase, activity>>

\* the rest of Epub::load() on storage that does not fail, with an NCX
\* document of no navigation point: endContentOpfPass, beginTocPass,
\* parseTocNcxFile, endTocPass, endWrite, buildBookBin, cleanupTmpFiles, load
opfFinishLoad ==
  /\ pc = "opfParsed"
  /\ LET tocPass == [cache EXCEPT !.spineFile = "r", !.tocFile = "w"]
         scratch == openFileForWrite(fs, tmpTocBinFile)
         ended   == endWrite([tocPass EXCEPT !.spineFile = "closed",
                                             !.tocFile = "closed"])
         built   == buildBookBin(ended, scratch, bookMetadata, ApiSizes, "none")
         served  == load(NewCache, cleanupTmpFiles(built.fs), FALSE, "loaded")
     IN  IF tocNcxItem = <<>>
         THEN /\ Fail("noNcx")
              /\ cache' = tocPass
              /\ fs' = scratch
              /\ UNCHANGED finalized
         ELSE /\ pc' = "returned"
              /\ result' = (served.outcome = "ok")
              /\ cache' = served.cache
              /\ fs' = cleanupTmpFiles(built.fs)
              /\ finalized' = [built |-> TRUE, spine |-> spineArgs, toc |-> <<>>,
                               sizes |-> ApiSizes, metadata |-> bookMetadata]
              /\ UNCHANGED stageError
  /\ UNCHANGED <<archive, tocNcxItem, bookMetadata, spineArgs, tocArgs, lastRead,
                 parserFiles, outOfPhase, opf, activity>>

NextOpf ==
  \/ opfStartTag
  \/ opfLeaf
  \/ opfEndTag
  \/ opfParseError
  \/ opfPassEnd
  \/ opfFinishLoad

SpecOpf == InitOpf /\ [][NextOpf]_vars

---------------------------------------------------------------------------
(* EpubReaderChapterSelectionActivity and XtcReaderChapterSelectionActivity: *)
(* loop() moving selectorIndex over the items of the list                    *)

MaxSelectionItems == 3
MaxPageItems == 4

startY == 60
lineHeight == 30

\* the quotient of int operands in C++, rounded towards zero (b > 0)
cppDiv(a, b) == IF a >= 0 THEN a \div b ELSE 0 - ((0 - a) \div b)

\* the remainder of int operands in C++: it has the sign of a (b > 0)
cppRem(a, b) == a - cppDiv(a, b) * b

\* the heights renderer.getScreenHeight() answers with: one below a full
\* first line, the others with room for 1..MaxPageItems lines
ScreenHeights == {lineHeight * k + startY + 15 : k \in 0..MaxPageItems}

\* getPageItems(): the lines below startY, at least one
getPageItems(screenHeight) ==
  LET items == cppDiv(screenHeight - startY, lineHeight)
  IN  IF items < 1 THEN 1 ELSE items

\* onEnter() of either activity on a book of at least one item: the selector
\* is on the item being read
InitSelection ==
  /\ pc = "selecting"
  /\ result = TRUE
  /\ cache = NewCache
  /\ fs = EmptyFs
  /\ archive = [hasContainer |-> TRUE]
  /\ tocNcxItem = <<>>
  /\ bookMetadata = EmptyMetadata
  /\ stageError = "none"
  /\ spineArgs = <<>>
  /\ tocArgs = <<>>
  /\ finalized = NotBuilt
  /\ lastRead = NoRead
  /\ parserFiles = NoParserFiles
  /\ outOfPhase = <<>>
  /\ opf = <<>>
  /\ \E kind \in {"epub", "xtc"}, count \in 1..MaxSelectionItems,
        height \in ScreenHeights, current \in 0..(MaxSelectionItems - 1) :
       /\ current < count
       /\ activity = [kind |-> kind, itemCount |-> count,
                      screenHeight |-> height, selectorIndex |-> current,
                      lastInput |-> "none"]

\* loop(): selectorIndex after Up or Left (prevReleased) or Down or Right
\* was released, after more than SKIP_PAGE_MS (skipPage) or not
movedSelectorIndex(sel, count, pageItems, prevReleased, skipPage) ==
  IF prevReleased
  THEN IF skipPage
       THEN cppRem((cppDiv(sel, pageItems) - 1) * pageItems + count, count)
       ELSE cppRem(sel + count - 1, count)
  ELSE IF skipPage
       THEN cppRem((cppDiv(sel, pageItems) + 1) * pageItems, count)
       ELSE cppRem(sel + 1, count)

\* loop(): Up or Left released, after more than SKIP_PAGE_MS or not
selectionPrevReleased ==
  /\ pc = "selecting"
  /\ \E skipPage \in BOOLEAN :
       activity' = [activity EXCEPT
         !.selectorIndex =
            movedSelectorIndex(@, activity.itemCount,
                               getPageItems(activity.screenHeight), TRUE, skipPage),
         !.lastInput = IF skipPage THEN "prevPage" ELSE "prev"]
  /\ UNCHANGED <<pc, result, cache, fs, archive, tocNcxItem, bookMetadata,
                 stageError, spineArgs, tocArgs, finalized, lastRead,
                 parserFiles, outOfPhase, opf>>

\* loop(): Down or Right released, after more than SKIP_PAGE_MS or not
selectionNextReleased ==
  /\ pc = "selecting"
  /\ \E skipPage \in BOOLEAN :
       activity' = [activity EXCEPT
         !.selectorIndex =
            movedSelectorIndex(@, activity.itemCount,
                               getPageItems(activity.screenHeight), FALSE, skipPage),
         !.lastInput = IF skipPage THEN "nextPage" ELSE "next"]
  /\ UNCHANGED <<pc, result, cache, fs, archive, tocNcxItem, bookMetadata,
                 stageError, spineArgs, tocArgs, finalized, lastRead,
                 parserFiles, outOfPhase, opf>>

NextSelection ==
  \/ selectionPrevReleased
  \/ selectionNextReleased

SpecSelection == InitSelection /\ [][NextSelection]_vars

---------------------------------------------------------------------------
(* EpubReaderActivity: loop(), the loop() of the chapter selection with   *)
(* its callbacks and onExit() on the main task, displayTaskLoop() on the  *)
(* display task                                                           *)

UINT16_MAX == 65535

\* the branches of loop() that take renderingMutex to reset the section
ResetBranches == {"turnBack", "turnForward", "skipBack", "skipForward"}

\* the page renderScreen opens a new section at
firstPage(nextPageNumber) ==
  IF nextPageNumber = UINT16_MAX THEN MaxPages - 1 ELSE nextPageNumber

\* a step of the main task that leaves it between two calls of loop();
\* inputReset tells whether the last step of the main task executed
\* section.reset()
MainStep(a, reset) == [a EXCEPT !.main = "loop", !.inputReset = reset]

\* a step of the main task that leaves it at its updateRequired = true;
\* unrendered tells that the input side has changed what is displayed, or
\* asked for it to be drawn, and renderScreen was not entered since
UpdateStep(a, reset) ==
  [a EXCEPT !.main = "notify", !.inputReset = reset, !.unrendered = TRUE]

\* the display task is between its xSemaphoreTake and its xSemaphoreGive:
\* at the head of renderScreen, or past the bounds of the spine index
Rendering == activity.display \in {"render", "section"}

\* onEnter(): the mutex created, the first update requested, the display
\* task started; section is <<>> when null, else <<currentPage, spineIndex>>
\* with the spine index it was constructed for; selectorIndex is that of
\* the chapter selection while it is open
InitActivity ==
  /\ pc = "reading"
  /\ result = TRUE
  /\ cache = NewCache
  /\ fs = EmptyFs
  /\ archive = [hasContainer |-> TRUE]
  /\ tocNcxItem = <<>>
  /\ bookMetadata = EmptyMetadata
  /\ stageError = "none"
  /\ spineArgs = <<>>
  /\ tocArgs = <<>>
  /\ finalized = NotBuilt
  /\ lastRead = NoRead
  /\ parserFiles = NoParserFiles
  /\ outOfPhase = <<>>
  /\ opf = <<>>
  /\ \E height \in ScreenHeights :
       activity = [main |-> "loop", display |-> "poll", renderingMutex |-> "free",
                   updateRequired |-> TRUE, section |-> <<>>, subActivity |-> FALSE,
                   currentSpineIndex |-> 0, nextPageNumber |-> 0,
                   inputReset |-> FALSE, deletedAt |-> "none",
                   screenHeight |-> height, selectorIndex |-> 0,
                   unrendered |-> TRUE]

\* loop(): PageBack or PageForward released inside the section
loopPageTurn ==
  /\ activity.main = "loop" /\ ~activity.subActivity
  /\ ~(activity.currentSpineIndex > 0 /\ activity.currentSpineIndex >= MaxChapters)
  /\ activity.section # <<>>
  /\ \E prevReleased \in BOOLEAN :
       /\ IF prevReleased THEN activity.section[1] > 0
                          ELSE activity.section[1] < MaxPages - 1
       /\ activity' = [UpdateStep(activity, FALSE) EXCEPT
                         !.section = IF prevReleased THEN <<@[1] - 1, @[2]>>
                                                       ELSE <<@[1] + 1, @[2]>>]
  /\ UNCHANGED <<pc, result, cache, fs, archive, tocNcxItem, bookMetadata,
                 stageError, spineArgs, tocArgs, finalized, lastRead,
                 parserFiles, outOfPhase, opf>>

\* loop(): xSemaphoreTake(renderingMutex, portMAX_DELAY) returns in the
\* branch of Confirm, of a long-press chapter skip, or of a page turn out
\* of the section; the index is followed down to -1
loopTakeMutex ==
  /\ activity.main = "loop" /\ ~activity.subActivity
  /\ activity.renderingMutex = "free"
  /\ \E branch \in ResetBranches \cup {"confirm"} :
       /\ branch # "confirm" =>
            ~(activity.currentSpineIndex > 0 /\ activity.currentSpineIndex >= MaxChapters)
       /\ branch = "skipBack" => activity.currentSpineIndex >= 0
       /\ branch = "turnBack" =>
            activity.section # <<>> /\ activity.section[1] = 0
            /\ activity.currentSpineIndex >= 0
       /\ branch = "turnForward" =>
            activity.section # <<>> /\ activity.section[1] >= MaxPages - 1
       /\ activity' = [activity EXCEPT !.main = branch, !.inputReset = FALSE,
                                       !.renderingMutex = "main"]
  /\ UNCHANGED <<pc, result, cache, fs, archive, tocNcxItem, bookMetadata,
                 stageError, spineArgs, tocArgs, finalized, lastRead,
                 parserFiles, outOfPhase, opf>>

\* loop(): nextPageNumber and currentSpineIndex set, section.reset(),
\* xSemaphoreGive
loopResetSection ==
  /\ activity.main \in ResetBranches
  /\ activity' = [UpdateStep(activity, TRUE) EXCEPT
                    !.nextPageNumber = IF activity.main = "turnBack" THEN UINT16_MAX ELSE 0,
                    !.currentSpineIndex =
                       IF activity.main \in {"turnBack", "skipBack"} THEN @ - 1 ELSE @ + 1,
                    !.section = <<>>,
                    !.renderingMutex = "free"]
  /\ UNCHANGED <<pc, result, cache, fs, archive, tocNcxItem, bookMetadata,
                 stageError, spineArgs, tocArgs, finalized, lastRead,
                 parserFiles, outOfPhase, opf>>

\* loop(): exitActivity(), enterNewActivity(new
\* EpubReaderChapterSelectionActivity(...)) whose onEnter() puts the
\* selector on currentSpineIndex, xSemaphoreGive
loopEnterChapterSelection ==
  /\ activity.main = "confirm"
  /\ activity' = [MainStep(activity, FALSE) EXCEPT
                    !.subActivity = TRUE,
                    !.selectorIndex = activity.currentSpineIndex,
                    !.renderingMutex = "free"]
  /\ UNCHANGED <<pc, result, cache, fs, archive, tocNcxItem, bookMetadata,
                 stageError, spineArgs, tocArgs, finalized, lastRead,
                 parserFiles, outOfPhase, opf>>

\* loop(): a page button released with no current section
loopNoSection ==
  /\ activity.main = "loop" /\ ~activity.subActivity
  /\ ~(activity.currentSpineIndex > 0 /\ activity.currentSpineIndex >= MaxChapters)
  /\ activity.section = <<>>
  /\ activity' = UpdateStep(activity, FALSE)
  /\ UNCHANGED <<pc, result, cache, fs, archive, tocNcxItem, bookMetadata,
                 stageError, spineArgs, tocArgs, finalized, lastRead,
                 parserFiles, outOfPhase, opf>>

\* loop(): a page button released at the end of the book
loopEndOfBook ==
  /\ activity.main = "loop" /\ ~activity.subActivity
  /\ activity.currentSpineIndex > 0 /\ activity.currentSpineIndex >= MaxChapters
  /\ activity' = [UpdateStep(activity, FALSE) EXCEPT
                    !.currentSpineIndex = MaxChapters - 1,
                    !.nextPageNumber = UINT16_MAX]
  /\ UNCHANGED <<pc, result, cache, fs, archive, tocNcxItem, bookMetadata,
                 stageError, spineArgs, tocArgs, finalized, lastRead,
                 parserFiles, outOfPhase, opf>>

\* a branch of loop() that ends without updateRequired = true
LoopWithoutUpdateRequired ==
  /\ activity.main = "notify"
  /\ activity' = MainStep(activity, FALSE)
  /\ UNCHANGED <<pc, result, cache, fs, archive, tocNcxItem, bookMetadata,
                 stageError, spineArgs, tocArgs, finalized, lastRead,
                 parserFiles, outOfPhase, opf>>

\* loop() or a callback: updateRequired = true, the last statement of every
\* branch that changed the position
loopUpdateRequired ==
  /\ activity.main = "notify"
  /\ activity' = [MainStep(activity, FALSE) EXCEPT !.updateRequired = TRUE]
  /\ UNCHANGED <<pc, result, cache, fs, archive, tocNcxItem, bookMetadata,
                 stageError, spineArgs, tocArgs, finalized, lastRead,
                 parserFiles, outOfPhase, opf>>

\* subActivity->loop(): a previous or next button released in the chapter
\* selection, after more than SKIP_PAGE_MS or not
selectionMoves ==
  /\ activity.main = "loop" /\ activity.subActivity
  /\ \E prevReleased \in BOOLEAN, skipPage \in BOOLEAN :
       activity' = [MainStep(activity, FALSE) EXCEPT
                      !.selectorIndex =
                         movedSelectorIndex(@, MaxChapters,
                                            getPageItems(activity.screenHeight),
                                            prevReleased, skipPage)]
  /\ UNCHANGED <<pc, result, cache, fs, archive, tocNcxItem, bookMetadata,
                 stageError, spineArgs, tocArgs, finalized, lastRead,
                 parserFiles, outOfPhase, opf>>

\* subActivity->loop() calls the first callback: exitActivity()
onGoBackFromSelection ==
  /\ activity.main = "loop" /\ activity.subActivity
  /\ activity' = [UpdateStep(activity, FALSE) EXCEPT !.subActivity = FALSE,
                                                   !.selectorIndex = 0]
  /\ UNCHANGED <<pc, result, cache, fs, archive, tocNcxItem, bookMetadata,
                 stageError, spineArgs, tocArgs, finalized, lastRead,
                 parserFiles, outOfPhase, opf>>

\* subActivity->loop(): Confirm released in the chapter selection, which
\* calls the second callback with its selectorIndex
onSelectSpineIndex ==
  /\ activity.main = "loop" /\ activity.subActivity
  /\ LET newSpineIndex == activity.selectorIndex
         changed       == activity.currentSpineIndex # newSpineIndex
     IN  activity' = [UpdateStep(activity, changed) EXCEPT
                        !.currentSpineIndex = newSpineIndex,
                        !.nextPageNumber = IF changed THEN 0 ELSE @,
                        !.section = IF changed THEN <<>> ELSE @,
                        !.subActivity = FALSE,
                        !.selectorIndex = 0]
  /\ UNCHANGED <<pc, result, cache, fs, archive, tocNcxItem, bookMetadata,
                 stageError, spineArgs, tocArgs, finalized, lastRead,
                 parserFiles, outOfPhase, opf>>

\* subActivity->loop() calls the third callback with newSpineIndex, newPage
onSyncPosition ==
  /\ activity.main = "loop" /\ activity.subActivity
  /\ \E newSpineIndex \in 0..(MaxChapters - 1), newPage \in 0..(MaxPages - 1) :
       LET changed == \/ activity.currentSpineIndex # newSpineIndex
                      \/ (activity.section # <<>> /\ activity.section[1] # newPage)
       IN  activity' = [UpdateStep(activity, changed) EXCEPT
                          !.currentSpineIndex = IF changed THEN newSpineIndex ELSE @,
                          !.nextPageNumber = IF changed THEN newPage ELSE @,
                          !.section = IF changed THEN <<>> ELSE @,
                          !.subActivity = FALSE,
                          !.selectorIndex = 0]
  /\ UNCHANGED <<pc, result, cache, fs, archive, tocNcxItem, bookMetadata,
                 stageError, spineArgs, tocArgs, finalized, lastRead,
                 parserFiles, outOfPhase, opf>>

\* onExit() going on to vTaskDelete without waiting for the mutex
OnExitNotWaiting ==
  /\ activity.main = "loop"
  /\ activity' = [activity EXCEPT !.main = "onExit", !.inputReset = FALSE,
                                  !.subActivity = FALSE,
                                  !.selectorIndex = 0,
                                  !.renderingMutex = "main"]
  /\ UNCHANGED <<pc, result, cache, fs, archive, tocNcxItem, bookMetadata,
                 stageError, spineArgs, tocArgs, finalized, lastRead,
                 parserFiles, outOfPhase, opf>>

\* onExit(): ActivityWithSubactivity::onExit(), then
\* xSemaphoreTake(renderingMutex, portMAX_DELAY) returns
onExit ==
  /\ activity.main = "loop"
  /\ activity.renderingMutex = "free"
  /\ activity' = [activity EXCEPT !.main = "onExit", !.inputReset = FALSE,
                                  !.subActivity = FALSE,
                                  !.selectorIndex = 0,
                                  !.renderingMutex = "main"]
  /\ UNCHANGED <<pc, result, cache, fs, archive, tocNcxItem, bookMetadata,
                 stageError, spineArgs, tocArgs, finalized, lastRead,
                 parserFiles, outOfPhase, opf>>

\* onExit(): vTaskDelete(displayTaskHandle), vSemaphoreDelete,
\* section.reset(), epub.reset()
onExitDeleteTask ==
  /\ activity.main = "onExit"
  /\ activity' = [activity EXCEPT !.main = "exited", !.inputReset = TRUE,
                                  !.deletedAt = activity.display,
                                  !.display = "deleted",
                                  !.renderingMutex = "deleted",
                                  !.section = <<>>]
  /\ UNCHANGED <<pc, result, cache, fs, archive, tocNcxItem, bookMetadata,
                 stageError, spineArgs, tocArgs, finalized, lastRead,
                 parserFiles, outOfPhase, opf>>

\* displayTaskLoop(): if (updateRequired) reads true
displaySeesUpdateRequired ==
  /\ activity.display = "poll"
  /\ activity.updateRequired
  /\ activity' = [activity EXCEPT !.display = "clear"]
  /\ UNCHANGED <<pc, result, cache, fs, archive, tocNcxItem, bookMetadata,
                 stageError, spineArgs, tocArgs, finalized, lastRead,
                 parserFiles, outOfPhase, opf>>

\* displayTaskLoop(): updateRequired = false
displayUpdateRequired ==
  /\ activity.display = "clear"
  /\ activity' = [activity EXCEPT !.display = "take", !.updateRequired = FALSE]
  /\ UNCHANGED <<pc, result, cache, fs, archive, tocNcxItem, bookMetadata,
                 stageError, spineArgs, tocArgs, finalized, lastRead,
                 parserFiles, outOfPhase, opf>>

\* displayTaskLoop(): xSemaphoreTake(renderingMutex, portMAX_DELAY) returns
displayTakeMutex ==
  /\ activity.display = "take"
  /\ activity.renderingMutex = "free"
  /\ activity' = [activity EXCEPT !.display = "render", !.renderingMutex = "display"]
  /\ UNCHANGED <<pc, result, cache, fs, archive, tocNcxItem, bookMetadata,
                 stageError, spineArgs, tocArgs, finalized, lastRead,
                 parserFiles, outOfPhase, opf>>

\* displayTaskLoop(): renderScreen() is entered; the index is brought into
\* 0..count, and at the end of the book the screen is drawn, renderScreen
\* returns and xSemaphoreGive(renderingMutex)
renderScreenBounds ==
  /\ activity.display = "render"
  /\ LET index == IF activity.currentSpineIndex < 0 THEN 0
                  ELSE IF activity.currentSpineIndex > MaxChapters THEN MaxChapters
                  ELSE activity.currentSpineIndex
     IN  activity' = [activity EXCEPT
                        !.currentSpineIndex = index,
                        !.unrendered = FALSE,
                        !.display = IF index = MaxChapters THEN "poll" ELSE "section",
                        !.renderingMutex = IF index = MaxChapters THEN "free" ELSE @]
  /\ UNCHANGED <<pc, result, cache, fs, archive, tocNcxItem, bookMetadata,
                 stageError, spineArgs, tocArgs, finalized, lastRead,
                 parserFiles, outOfPhase, opf>>

\* displayTaskLoop(): the rest of renderScreen() and
\* xSemaphoreGive(renderingMutex); a missing section is constructed for
\* currentSpineIndex as it is now, loaded or built and opened at
\* nextPageNumber, or reset when it cannot be stored or read
renderScreen ==
  /\ activity.display = "section"
  /\ \E stored \in BOOLEAN :
       activity' = [activity EXCEPT
                      !.display = "poll",
                      !.renderingMutex = "free",
                      !.section =
                         IF ~stored THEN <<>>
                         ELSE IF @ = <<>>
                              THEN <<firstPage(activity.nextPageNumber),
                                     activity.currentSpineIndex>>
                              ELSE @]
  /\ UNCHANGED <<pc, result, cache, fs, archive, tocNcxItem, bookMetadata,
                 stageError, spineArgs, tocArgs, finalized, lastRead,
                 parserFiles, outOfPhase, opf>>

NextActivity ==
  \/ loopPageTurn
  \/ loopTakeMutex
  \/ loopResetSection
  \/ loopEnterChapterSelection
  \/ loopNoSection
  \/ loopEndOfBook
  \/ loopUpdateRequired
  \/ selectionMoves
  \/ onGoBackFromSelection
  \/ onSelectSpineIndex
  \/ onSyncPosition
  \/ onExit
  \/ onExitDeleteTask
  \/ displaySeesUpdateRequired
  \/ displayUpdateRequired
  \/ displayTakeMutex
  \/ renderScreenBounds
  \/ renderScreen

SpecActivity == InitActivity /\ [][NextActivity]_vars

---------------------------------------------------------------------------
(* Properties *)

\* load() has returned true on an index that a completed buildBookBin wrote
ServingFinalized == pc = "returned" /\ result /\ cache.loaded /\ finalized.built

SpineIndices == 0..(Len(finalized.spine) - 1)
TocIndices == 0..(Len(finalized.toc) - 1)

BookBin == fs[bookBinFile].data

\* C1: Round trip. After a build finalized by buildBookBin and a fresh load(),
\* getSpineEntry(0..N-1) and getTocEntry(0..M-1) give back, in order, the href
\* of every spine entry and the title, href, anchor and level of every TOC
\* entry handed to the creators; so does every read a caller has made.
C1_RoundTrip ==
  ServingFinalized =>
    /\ cache.spineCount = Len(finalized.spine)
    /\ cache.tocCount = Len(finalized.toc)
    /\ \A i \in SpineIndices :
         getSpineEntry(cache, fs, i).href = finalized.spine[i + 1]
    /\ \A j \in TocIndices :
         LET e == getTocEntry(cache, fs, j)
             t == finalized.toc[j + 1]
         IN  e.title = t.title /\ e.href = t.href /\ e.anchor = t.anchor
             /\ e.level = t.level
    /\ (lastRead.kind = "spine" /\ lastRead.index \in SpineIndices) =>
         lastRead.entry.href = finalized.spine[lastRead.index + 1]
    /\ (lastRead.kind = "toc" /\ lastRead.index \in TocIndices) =>
         LET t == finalized.toc[lastRead.index + 1]
         IN  lastRead.entry.title = t.title /\ lastRead.entry.href = t.href
             /\ lastRead.entry.anchor = t.anchor /\ lastRead.entry.level = t.level

C1_Witness ==
  /\ ServingFinalized
  /\ Len(finalized.spine) = 2 /\ finalized.spine[1] # finalized.spine[2]
  /\ Len(finalized.toc) = 2 /\ finalized.toc[1] # finalized.toc[2]
  /\ lastRead.kind = "toc" /\ lastRead.index = 1

\* where the records of a book.bin begin when its blocks are walked in file
\* order: the LUT starts where the metadata block ends, the spine records
\* follow the LUT, the TOC records follow the last spine record
MetadataEnd(f) ==
  readString(f, readString(f, readString(f, headerASize).next).next).next

StoredSpineCount(f) == readUnsigned(f, 1 + SizeTWidth, CountWidth)
StoredTocCount(f) == readUnsigned(f, 1 + SizeTWidth + CountWidth, CountWidth)
StoredLutOffset(f) == readUnsigned(f, 1, SizeTWidth)

LutEnd(f) == MetadataEnd(f) + SizeTWidth * (StoredSpineCount(f) + StoredTocCount(f))

WalkedSpine(f) == spineRecords(f, LutEnd(f), StoredSpineCount(f))

WalkedToc(f) ==
  LET s == WalkedSpine(f)
  IN  tocRecords(f, IF s = <<>> THEN LutEnd(f) ELSE s[Len(s)].next, StoredTocCount(f))

LutSlot(f, k) == readUnsigned(f, StoredLutOffset(f) + SizeTWidth * k, SizeTWidth)

\* C2: in every book.bin produced by buildBookBin the stored lutOffset is the
\* byte position where the LUT begins, LUT slot i holds the byte offset at
\* which spine record i begins and slot spineCount + j the offset at which TOC
\* record j begins.
C2_LutAddressesRecords ==
  finalized.built =>
    LET walkedSpine == WalkedSpine(BookBin)
        walkedToc == WalkedToc(BookBin)
    IN  /\ StoredLutOffset(BookBin) = MetadataEnd(BookBin)
        /\ StoredSpineCount(BookBin) = Len(finalized.spine)
        /\ StoredTocCount(BookBin) = Len(finalized.toc)
        /\ \A i \in SpineIndices :
             /\ LutSlot(BookBin, i) = walkedSpine[i + 1].pos
             /\ walkedSpine[i + 1].entry.href = finalized.spine[i + 1]
        /\ \A j \in TocIndices :
             /\ LutSlot(BookBin, Len(finalized.spine) + j) = walkedToc[j + 1].pos
             /\ walkedToc[j + 1].entry.href = finalized.toc[j + 1].href
             /\ walkedToc[j + 1].entry.title = finalized.toc[j + 1].title

C2_Witness ==
  /\ finalized.built
  /\ Len(finalized.spine) = 2 /\ Len(finalized.toc) = 2
  /\ finalized.metadata.title # <<>>
  /\ pc = "cleanupTmpFiles"

\* the file holds every record its header announces, and nothing else
BookBinWhole ==
  LET s   == WalkedSpine(BookBin)
      t   == WalkedToc(BookBin)
      end == IF t # <<>> THEN t[Len(t)].next
             ELSE IF s # <<>> THEN s[Len(s)].next
             ELSE LutEnd(BookBin)
  IN  BookBin # <<>> /\ Len(BookBin) = end

\* C3 (as claimed): an incomplete output file is never opened successfully by
\* the reader. A rebuild that does not complete leaves no book.bin that a later
\* load() opens: whenever a load() has succeeded, the book.bin it opened holds
\* every record its header announces.
C3_IncompleteNeverOpens == cache.loaded => BookBinWhole

VersionMismatch ==
  /\ fs[bookBinFile].exists
  /\ BookBin # <<>>
  /\ BookBin[1] # BOOK_CACHE_VERSION

\* C4: Version gate. When the first byte of book.bin is not the expected
\* version, load() returns false and loads nothing: loaded stays false,
\* lutOffset, spineCount, tocCount and the metadata are as constructed, and
\* getSpineEntry / getTocEntry give the default entry.
C4_VersionGate ==
  /\ (pc = "beginWrite" /\ VersionMismatch) =>
       /\ ~cache.loaded
       /\ cache.lutOffset = NewCache.lutOffset
       /\ cache.spineCount = NewCache.spineCount
       /\ cache.tocCount = NewCache.tocCount
       /\ cache.coreMetadata = NewCache.coreMetadata
       /\ \A i \in (-1)..MaxSpine : getSpineEntry(cache, fs, i) = DefaultSpineEntry
       /\ \A j \in (-1)..MaxToc : getTocEntry(cache, fs, j) = DefaultTocEntry
  /\ (pc \in {"idle", "returned"} /\ VersionMismatch) => ~result
  /\ (pc = "returned" /\ VersionMismatch /\ lastRead.kind = "spine") =>
       lastRead.entry = DefaultSpineEntry
  /\ (pc = "returned" /\ VersionMismatch /\ lastRead.kind = "toc") =>
       lastRead.entry = DefaultTocEntry

C4_Witness ==
  /\ pc = "beginWrite"
  /\ VersionMismatch
  /\ StoredSpineCount(BookBin) > 0

\* the cumulativeSize stored for spine index i of the index being served
StoredCumulativeSize(i) == getSpineEntry(cache, fs, i).cumulativeSize

\* C5 (as claimed): in every finalized index cumulativeSize is non-decreasing
\* over spine index order, whatever the archive answers to the size queries.
C5_CumulativeSizeNonDecreasing ==
  ServingFinalized =>
    \A i, k \in SpineIndices :
      i < k => StoredCumulativeSize(i) <= StoredCumulativeSize(k)

\* the inflated size of the archive item of spine entry k (1-based) of the
\* finalized build; an item the archive does not hold inflates to nothing
InflatedSize(k) ==
  LET answer == getInflatedFileSize(finalized.sizes, normalisePath(finalized.spine[k]))
  IN  IF answer = NotFound THEN 0 ELSE answer

RECURSIVE RunningTotal(_)
RunningTotal(k) == IF k = 0 THEN 0 ELSE RunningTotal(k - 1) + InflatedSize(k)

\* C6 (as claimed): spine[i].cumulativeSize is the sum of the inflated sizes
\* of the items of spine entries 0..i, and getBookSize() is the total.
C6_CumulativeSizeIsRunningTotal ==
  ServingFinalized =>
    /\ \A i \in SpineIndices : StoredCumulativeSize(i) = RunningTotal(i + 1)
    /\ getBookSize(cache, fs) = RunningTotal(Len(finalized.spine))

\* the TOC indices whose entry resolves to spine index i in the served index
TocEntriesFor(i) == {j \in TocIndices : getTocEntry(cache, fs, j).spineIndex = i}

\* C7: in every finalized index spine[i].tocIndex is the smallest j with
\* toc[j].spineIndex = i, and none (-1) when no TOC entry resolves to i; with
\* spine [c1, c2] and one TOC entry targeting c1: spine[0].tocIndex = 0,
\* toc[0].spineIndex = 0, spine[1].tocIndex = none.
C7_TocIndexIsFirstMatch ==
  ServingFinalized =>
    /\ \A i \in SpineIndices :
         LET tocIndex == getSpineEntry(cache, fs, i).tocIndex
         IN  IF TocEntriesFor(i) = {} THEN tocIndex = NotFound
             ELSE /\ tocIndex \in TocEntriesFor(i)
                  /\ \A j \in TocEntriesFor(i) : tocIndex <= j
    /\ (finalized.spine = <<HrefA, HrefB>> /\ Len(finalized.toc) = 1
        /\ finalized.toc[1].href = HrefA) =>
         /\ getSpineEntry(cache, fs, 0).tocIndex = 0
         /\ getTocEntry(cache, fs, 0).spineIndex = 0
         /\ getSpineEntry(cache, fs, 1).tocIndex = NotFound

C7_Witness ==
  /\ ServingFinalized
  /\ Len(finalized.spine) = 2
  /\ Cardinality(TocEntriesFor(1)) = 2
  /\ TocEntriesFor(0) = {}

\* the href t resolves to no spine entry created so far
Unresolvable(href, spine) == \A k \in 1..Len(spine) : spine[k] # href

\* the step of a createTocEntry call whose href resolves to no spine entry
C8_CreateStep ==
  (pc = "ncxStream" /\ tocArgs' # tocArgs
     /\ Unresolvable(tocArgs'[Len(tocArgs')].href, spineArgs)) =>
    LET t == tocArgs'[Len(tocArgs')]
        written == tocRecords(fs'[tmpTocBinFile].data, 0, cache'.tocCount)
    IN  /\ cache'.tocCount = cache.tocCount + 1
        /\ Len(fs'[tmpTocBinFile].data)
             = Len(fs[tmpTocBinFile].data) + Len(writeTocEntry(TocEntry(t.title, t.href, t.anchor, t.level, NotFound)))
        /\ written[cache'.tocCount].entry
             = TocEntry(t.title, t.href, t.anchor, t.level, NotFound)
        /\ pc' = "ncxStream"

\* an unresolved entry of the build is served at its position, spineIndex none
C8_InIndex ==
  ServingFinalized =>
    \A j \in TocIndices :
      Unresolvable(finalized.toc[j + 1].href, finalized.spine) =>
        LET t == finalized.toc[j + 1]
        IN  getTocEntry(cache, fs, j)
              = TocEntry(t.title, t.href, t.anchor, t.level, NotFound)

\* C8: Resolution miss is non-fatal. A createTocEntry call of the TOC pass
\* whose href is the href of no spine entry appends one TOC record with
\* spineIndex = none and increments tocCount, the build goes on, and the entry
\* is in the finalized index at its position in creation order.
C8_ResolutionMissNonFatal == [][C8_CreateStep]_vars /\ []C8_InIndex

C8_Witness ==
  /\ ServingFinalized
  /\ Len(finalized.spine) = 2
  /\ Len(finalized.toc) = 2
  /\ finalized.toc[1].href = HrefA
  /\ finalized.toc[2].href = HrefZ
  /\ lastRead.kind = "toc" /\ lastRead.index = 1
  /\ lastRead.entry.spineIndex = NotFound

C9_NoBookBinCreated == ~archive.hasContainer => fs'[bookBinFile] = fs[bookBinFile]

\* such a load() returns false; a book.bin present fails the version gate
C9_LoadFails ==
  /\ (~archive.hasContainer /\ pc = "returned") => ~result
  /\ (~archive.hasContainer /\ fs[bookBinFile].exists) => VersionMismatch

C10_FailureAbortsLoad ==
  stageError # "none" => (pc = "returned" /\ ~result)

\* the stages of a rebuild that come after the scratch file was created
AfterTocScratch ==
  {"noNcx", "openTmpWrite", "streamNcx", "openTmpRead", "ncxSetup", "ncxMalloc",
   "ncxParse", "endWrite", "buildBookBin", "reload"}
AfterSpineScratch ==
  {"container"} \cup (OpfFaults \ {"none"}) \cup {"opfStream", "beginTocPass"}
    \cup AfterTocScratch

\* C11 (as claimed): partial scratch files are cleaned up when a build fails.
\* After a load() that returned false at a stage of a rebuild, neither
\* spine.bin.tmp nor toc.bin.tmp, once created by that build, remains.
C11_FailedBuildLeavesNoScratch ==
  (pc = "returned" /\ ~result) =>
    /\ stageError \in AfterSpineScratch => ~fs[tmpSpineBinFile].exists
    /\ stageError \in AfterTocScratch => ~fs[tmpTocBinFile].exists

ScratchFiles == {tmpSpineBinFile, tmpTocBinFile, itemCacheFile, tmpNcxFile}

CurrentVersion ==
  /\ fs[bookBinFile].exists
  /\ BookBin # <<>>
  /\ BookBin[1] = BOOK_CACHE_VERSION

\* a step that is a call of load() on a new Epub: no read has been made of it
LoadCall == pc \in {"idle", "returned"} /\ lastRead' = NoRead

C14_ServingCacheReadFromBookBin ==
  (pc = "returned" /\ result) =>
    /\ cache.loaded /\ ~cache.buildMode
    /\ cache.spineFile = "closed" /\ cache.tocFile = "closed"
    /\ Len(BookBin) >= headerASize
    /\ cache.lutOffset = StoredLutOffset(BookBin)
    /\ cache.spineCount = StoredSpineCount(BookBin)
    /\ cache.tocCount = StoredTocCount(BookBin)

\* the position of a rebuild stage in the sequence of Epub::load()
Phase(stage) ==
  CASE stage = "beginWrite" -> 0
    [] stage = "beginContentOpfPass" -> 1
    [] stage \in {"parseContentOpf", "opfManifest", "opfManifestItems",
                  "opfSpine", "opfStream"} -> 2
    [] stage = "endContentOpfPass" -> 3
    [] stage = "beginTocPass" -> 4
    [] stage \in {"parseTocNcx", "ncxStream"} -> 5
    [] stage = "endTocPass" -> 6
    [] stage = "endWrite" -> 7
    [] stage = "buildBookBin" -> 8
    [] stage = "cleanupTmpFiles" -> 9
    [] stage = "reload" -> 10

RebuildStages ==
  {"beginWrite", "beginContentOpfPass", "parseContentOpf", "opfManifest",
   "opfManifestItems", "opfSpine", "opfStream", "endContentOpfPass",
   "beginTocPass", "parseTocNcx", "ncxStream", "endTocPass", "endWrite",
   "buildBookBin", "cleanupTmpFiles", "reload"}

\* C15: in a rebuild the builder phases follow one another in the order
\* beginWrite, content-OPF pass (begin, spine entries, end), TOC pass (begin,
\* TOC entries, end), endWrite, buildBookBin, none skipped and none re-entered;
\* spine entries are created only in the content-OPF pass and before any TOC
\* entry, TOC entries only in the TOC pass, and spineCount no longer changes
\* once a TOC entry exists.
C15_PhaseOrder ==
  [][(pc \in RebuildStages /\ pc' \in RebuildStages) =>
       /\ Phase(pc') \in {Phase(pc), Phase(pc) + 1}
       /\ (pc # "beginWrite" /\ spineArgs' # spineArgs) =>
            Phase(pc) = 2 /\ tocArgs = <<>> /\ cache.tocCount = 0
       /\ (pc # "beginWrite" /\ tocArgs' # tocArgs) => Phase(pc) = 5
       /\ (pc # "beginWrite" /\ cache.tocCount > 0) =>
            cache'.spineCount = cache.spineCount]_vars

C15_Witness ==
  /\ pc = "buildBookBin"
  /\ Len(spineArgs) = MaxSpine /\ cache.spineCount = MaxSpine
  /\ Len(tocArgs) = MaxToc /\ cache.tocCount = MaxToc

\* C16 (as claimed): a creator called outside its matching phase is a no-op:
\* createSpineEntry in any state other than the manifest/spine pass and
\* createTocEntry in any state other than the TOC pass leave spineCount,
\* tocCount and the contents of spine.bin.tmp and toc.bin.tmp unchanged.
C16_OutOfPhaseCreatorIsNoOp ==
  [][outOfPhase' # outOfPhase =>
       /\ cache'.spineCount = cache.spineCount
       /\ cache'.tocCount = cache.tocCount
       /\ fs'[tmpSpineBinFile] = fs[tmpSpineBinFile]
       /\ fs'[tmpTocBinFile] = fs[tmpTocBinFile]]_vars

\* the builder states in which no spine pass has completed
BeforeSpinePassEnd == {"Idle", "Building", "ManifestSpinePass"}

\* every out-of-phase call so far is a createTocEntry made before the end of
\* the spine pass
OnlyEarlyTocCalls ==
  \A k \in 1..Len(outOfPhase) :
    outOfPhase[k][1] = "createTocEntry" /\ outOfPhase[k][2] \in BeforeSpinePassEnd

\* the TOC records that out-of-phase calls left in the index
RecordedEarly == cache.tocCount - Len(tocArgs)

\* every entry created in its phase is read back from the loaded index
ReadBackAsCreated ==
  /\ cache.loaded
  /\ cache.spineCount = Len(spineArgs)
  /\ RecordedEarly \in 0..Len(outOfPhase)
  /\ \A j \in 0..(RecordedEarly - 1) :
       getTocEntry(cache, fs, j).spineIndex = NotFound
  /\ \A i \in 0..(Len(spineArgs) - 1) :
       getSpineEntry(cache, fs, i).href = spineArgs[i + 1]
  /\ \A j \in 0..(Len(tocArgs) - 1) :
       LET e == getTocEntry(cache, fs, j + RecordedEarly)
           t == tocArgs[j + 1]
       IN  /\ e.title = t.title /\ e.href = t.href /\ e.anchor = t.anchor
           /\ e.level = t.level
           /\ IF Unresolvable(t.href, spineArgs)
              THEN e.spineIndex = NotFound
              ELSE /\ e.spineIndex \in 0..(Len(spineArgs) - 1)
                   /\ spineArgs[e.spineIndex + 1] = t.href
                   /\ \A k \in 1..e.spineIndex : spineArgs[k] # t.href

\* C17: a createTocEntry call made before any spine pass has completed is
\* dropped or recorded with spineIndex = none, and every spine and TOC entry
\* created afterwards in its proper phase is read back from the finalized
\* index with the fields it was created with.
C17_EarlyTocEntryHarmless ==
  [][/\ (outOfPhase' # outOfPhase /\ OnlyEarlyTocCalls') =>
          \/ cache' = cache /\ fs' = fs
          \/ /\ cache'.tocCount = cache.tocCount + 1
             /\ \E t \in TocInputs :
                  fs'[tmpTocBinFile].data = fs[tmpTocBinFile].data \o
                    writeTocEntry(TocEntry(t.title, t.href, t.anchor, t.level, NotFound))
     /\ (pc' = "Serving" /\ outOfPhase' # <<>> /\ OnlyEarlyTocCalls') =>
          ReadBackAsCreated']_vars

C17_Witness ==
  /\ pc = "Serving"
  /\ outOfPhase = << <<"createTocEntry", "ManifestSpinePass">> >>
  /\ Len(spineArgs) = MaxSpine
  /\ Len(tocArgs) = MaxToc
  /\ cache.tocCount = MaxToc

\* the last read asked for an index the bounds check lets through
ReadInRange ==
  /\ cache.loaded
  /\ lastRead.index >= 0
  /\ lastRead.index < (IF lastRead.kind = "spine" THEN cache.spineCount
                                                  ELSE cache.tocCount)

\* C18 (as claimed): getSpineEntry(i) and getTocEntry(i) check i against the
\* stored counts.  With the cache not loaded, i < 0 or i >= the count they
\* return the default entry, whatever book.bin holds (nothing of it is read);
\* with i in range book.bin holds a record at the address in the LUT slot of
\* i, and they return it.
C18_BoundsCheckedReads ==
  /\ (lastRead.kind = "spine" /\ ~ReadInRange) =>
       /\ lastRead.entry = DefaultSpineEntry
       /\ getSpineEntry(cache, EmptyFs, lastRead.index) = DefaultSpineEntry
  /\ (lastRead.kind = "toc" /\ ~ReadInRange) =>
       /\ lastRead.entry = DefaultTocEntry
       /\ getTocEntry(cache, EmptyFs, lastRead.index) = DefaultTocEntry
  /\ (lastRead.kind = "spine" /\ ReadInRange) =>
       /\ spineReadInFile(cache, fs, lastRead.index)
       /\ lastRead.entry =
            readSpineEntry(BookBin, LutSlot(BookBin, lastRead.index)).entry
  /\ (lastRead.kind = "toc" /\ ReadInRange) =>
       /\ tocReadInFile(cache, fs, lastRead.index)
       /\ lastRead.entry =
            readTocEntry(BookBin, LutSlot(BookBin, cache.spineCount + lastRead.index)).entry

\* a step that opens a handle finds it closed
OpensClosed(before, after) ==
  (after # "closed" /\ after # before) => before = "closed"

\* C19: during Epub::load() no storage file has two handles open at once of
\* which one writes.  Each of spine.bin.tmp, toc.bin.tmp, book.bin, .items.bin
\* and toc.ncx is reached through one handle, and every step that opens that
\* handle, for reading or for writing, finds it closed: the phase before has
\* closed it.
C19_OneHandlePerFile ==
  [][(pc \in RebuildStages) =>
       /\ OpensClosed(cache.spineFile, cache'.spineFile)
       /\ OpensClosed(cache.tocFile, cache'.tocFile)
       /\ OpensClosed(cache.bookFile, cache'.bookFile)
       /\ OpensClosed(parserFiles.items, parserFiles'.items)
       /\ OpensClosed(parserFiles.ncx, parserFiles'.ncx)
       /\ (pc \in {"buildBookBin", "reload"}) =>
            (cache.bookFile = "closed" /\ cache.spineFile = "closed"
             /\ cache.tocFile = "closed")
       /\ (pc = "parseTocNcx") => (parserFiles.ncx = "closed")]_vars

\* spine.bin.tmp, written and closed by the first pass, is open again for
\* reading while toc.bin.tmp is written
C19_Witness ==
  /\ pc = "ncxStream"
  /\ Len(spineArgs) > 0 /\ Len(tocArgs) > 0
  /\ cache.spineFile = "r" /\ cache.tocFile = "w"
  /\ parserFiles.ncx = "r" /\ parserFiles.items = "closed"

\* the cache directory without book.bin
WithoutBookBin == [fs EXCEPT ![bookBinFile] = NoFile]

\* C20: the finished index is immutable.  Once load() has returned true no
\* read through the cache changes any file, and buildBookBin never patches an
\* existing book.bin: it leaves the file untouched (it could not be opened) or
\* writes what it would have written with no book.bin there, so no byte of
\* the previous index is in the new one.
C20_FinishedIndexImmutable ==
  [][/\ (pc = "returned" /\ pc' = "returned" /\ result /\ lastRead' # lastRead) =>
          fs' = fs
     /\ (pc = "buildBookBin" /\ pc' # pc) =>
          \/ fs'[bookBinFile] = fs[bookBinFile] /\ pc' = "returned"
          \/ \E fault \in BuildFaults, sizes \in SizeAnswers :
               fs'[bookBinFile] =
                 buildBookBin(cache, WithoutBookBin, bookMetadata, sizes, fault).fs[bookBinFile]]_vars

\* buildBookBin is about to run in a cache directory that holds the index of
\* another cache version
C20_Witness ==
  /\ pc = "buildBookBin"
  /\ BookBin = StaleBookBin
  /\ Len(spineArgs) > 0 /\ Len(tocArgs) > 0

(* ------------------------------------------------------------------ *)
(* The package pass                                                     *)
(* ------------------------------------------------------------------ *)

\* the resolved href of the first item of manifest m whose id is idref, as a
\* sequence of one href, or of none
RECURSIVE FirstItemHref(_, _)
FirstItemHref(m, idref) ==
  IF m = <<>> THEN <<>>
  ELSE IF Head(m).id = idref THEN <<baseContentPath \o Head(m).href>>
  ELSE FirstItemHref(Tail(m), idref)

\* the spine entries the itemrefs refs of a spine call for, given manifest m
RECURSIVE ResolvedSpine(_, _)
ResolvedSpine(m, refs) ==
  IF refs = <<>> THEN <<>>
  ELSE FirstItemHref(m, Head(refs)) \o ResolvedSpine(m, Tail(refs))

\* C21: throughout the package pass the spine entries created are, in
\* document order, one for each itemref of the spine whose idref is the id of
\* a manifest item, with the resolved href of the first such item, and none
\* for the other itemrefs; write does not fail on either.
C21_SpineResolvedFromManifest ==
  pc = "opfWrite" =>
    /\ spineArgs = ResolvedSpine(opf.manifest, opf.itemrefs)
    /\ opf.parser => opf.returned

\* C24: once an open of the manifest scratch file has failed, on entering
\* the manifest or on entering the spine, write reports failure and
\* Epub::load() does not return true.
C24_StoreFaultFailsPass ==
  opf.storeFault => ~opf.returned /\ ~(pc = "returned" /\ result)

\* what a parser has recorded: the items of the manifest scratch file, the
\* spine entries created, the captured cover and NCX paths, its state
Recorded ==
  <<fs[itemCacheFile], spineArgs, cache, fs[tmpSpineBinFile], opf.state,
    opf.coverItemId, opf.coverItemHref, opf.tocNcxPath, opf.manifest,
    opf.itemrefs>>

\* C25: once write has returned 0 for a parse error the parser is released,
\* every later write of the pass returns 0, and that parser records no
\* further manifest item and creates no further spine entry.
C25_ParseErrorAbortsPass ==
  [][(pc = "opfWrite" /\ ~opf.parser /\ pc' = "opfWrite")
       => (~opf'.parser /\ ~opf'.returned /\ Recorded' = Recorded)]_vars

\* a parse error in the middle of the manifest, after which the document
\* goes on
C25_Witness ==
  /\ pc = "opfWrite" /\ ~opf.parser /\ ~opf.returned
  /\ opf.state = "IN_MANIFEST" /\ Len(opf.manifest) = 1
  /\ opf.open = <<"package", "manifest">>
  /\ opf.late

\* the resolved href of the first item of manifest m whose media type is the
\* NCX content type, empty when there is none
RECURSIVE FirstNcxHref(_)
FirstNcxHref(m) ==
  IF m = <<>> THEN <<>>
  ELSE IF Head(m).mediaType = MEDIA_TYPE_NCX THEN baseContentPath \o Head(m).href
  ELSE FirstNcxHref(Tail(m))

\* C26: throughout the package pass tocNcxPath is the resolved href of the
\* first manifest item, in document order, whose media type is the NCX
\* content type, so that a later NCX item never changes it, and it is the
\* path parseContentOpf takes over when the pass has ended.
C26_FirstNcxItemWins ==
  [][/\ pc' = "opfWrite" => opf'.tocNcxPath = FirstNcxHref(opf'.manifest)
     /\ (pc = "opfWrite" /\ pc' = "opfParsed")
          => tocNcxItem' = FirstNcxHref(opf.manifest)]_vars

\* two NCX items were read, the path is that of the first
C26_Witness ==
  /\ pc = "opfWrite"
  /\ Len(opf.manifest) = 2
  /\ opf.manifest[1].mediaType = MEDIA_TYPE_NCX
  /\ opf.manifest[2].mediaType = MEDIA_TYPE_NCX
  /\ opf.manifest[1].href # opf.manifest[2].href
  /\ opf.tocNcxPath = baseContentPath \o opf.manifest[1].href

\* the resolved href of the last item of manifest m whose id was the cover id
\* declared last before it, empty when there is none
RECURSIVE LastCoverHref(_)
LastCoverHref(m) ==
  IF m = <<>> THEN <<>>
  ELSE IF m[Len(m)].id = m[Len(m)].cover
       THEN baseContentPath \o m[Len(m)].href
       ELSE LastCoverHref(SubSeq(m, 1, Len(m) - 1))

\* the package pass ends with parseContentOpf returning true
PassSucceeds == pc = "opfWrite" /\ pc' = "opfParsed"

\* C27 as stated: when the pass ends, coverItemHref is the resolved href of
\* every manifest item whose id a cover meta entry of the metadata declared
\* before the item was recorded.
C27_CoverOfDeclaredItem ==
  [][PassSucceeds =>
       \A k \in 1..Len(opf.manifest) :
          opf.manifest[k].id \in opf.manifest[k].declared
            => bookMetadata'.coverItemHref = baseContentPath \o opf.manifest[k].href]_vars

\* C27: throughout the pass coverItemHref is the resolved href of the last
\* manifest item recorded whose id is the content of the cover meta entry
\* read last before it; parseContentOpf takes this value over when the pass
\* has ended, and buildBookBin stores it as the cover href of the index,
\* where load() reads it back.
C27_CoverOfLastDeclaredItem ==
  [][/\ pc' = "opfWrite" => opf'.coverItemHref = LastCoverHref(opf'.manifest)
     /\ PassSucceeds => bookMetadata'.coverItemHref = LastCoverHref(opf.manifest)
     /\ (pc = "opfParsed" /\ finalized'.built)
          => /\ result'
             /\ cache'.coreMetadata.coverItemHref = bookMetadata.coverItemHref]_vars

\* the document is read to its end, two items had the declared cover id and
\* the second one's href is the cover
C27_Witness ==
  /\ pc = "opfWrite" /\ opf.done /\ opf.parser
  /\ Len(opf.manifest) = 2
  /\ opf.manifest[1].id = opf.manifest[1].cover
  /\ opf.manifest[2].id = opf.manifest[2].cover
  /\ opf.manifest[1].href # opf.manifest[2].href
  /\ opf.coverItemHref = baseContentPath \o opf.manifest[2].href

\* the tag a write of the pass has handled, from the position before and
\* after it: the element and whether it started, ended, or did both
HandledTag ==
  IF Len(opf'.open) > Len(opf.open) THEN <<opf'.open[Len(opf'.open)], "start">>
  ELSE IF Len(opf'.open) < Len(opf.open) THEN <<opf.open[Len(opf.open)], "end">>
  ELSE <<"leaf", "both">>

\* the transitions of the resolver's state: from, to, element, tag
ListedMoves ==
  { <<"START", "IN_PACKAGE", "package", "start">>,
    <<"IN_PACKAGE", "IN_METADATA", "metadata", "start">>,
    <<"IN_PACKAGE", "IN_MANIFEST", "manifest", "start">>,
    <<"IN_PACKAGE", "IN_SPINE", "spine", "start">>,
    <<"IN_METADATA", "IN_PACKAGE", "metadata", "end">>,
    <<"IN_MANIFEST", "IN_PACKAGE", "manifest", "end">>,
    <<"IN_SPINE", "IN_PACKAGE", "spine", "end">>,
    <<"IN_METADATA", "IN_BOOK_TITLE", "title", "start">>,
    <<"IN_BOOK_TITLE", "IN_METADATA", "title", "end">> }

\* a write of the pass handled by a living parser
HandledWrite == pc = "opfWrite" /\ pc' = "opfWrite" /\ opf.parser /\ opf'.parser

\* the state moves only along moves
MovesOnlyAlong(moves) ==
  opf'.state # opf.state
    => <<opf.state, opf'.state, HandledTag[1], HandledTag[2]>> \in moves

\* an item is recorded only in state IN_MANIFEST, an itemref resolved only
\* in state IN_SPINE
RecordsInItsSection ==
  /\ (\/ Len(fs'[itemCacheFile].data) > Len(fs[itemCacheFile].data)
      \/ opf'.coverItemHref # opf.coverItemHref
      \/ opf'.tocNcxPath # opf.tocNcxPath)
       => opf.state = "IN_MANIFEST" /\ HandledTag[1] = "leaf"
  /\ spineArgs' # spineArgs => opf.state = "IN_SPINE" /\ HandledTag[1] = "leaf"

\* C23 as stated: the state of the resolver moves only along the listed
\* transitions, every other element leaves it unchanged, items are recorded
\* only while IN_MANIFEST and itemrefs resolved only while IN_SPINE.
C23_ListedMovesOnly ==
  [][HandledWrite => MovesOnlyAlong(ListedMoves) /\ RecordsInItsSection]_vars

\* C23: the state of the resolver moves only along the listed transitions
\* and from IN_PACKAGE to START on the package end tag, every other element
\* leaves it unchanged, items are recorded only while IN_MANIFEST and
\* itemrefs resolved only while IN_SPINE, for bare and opf: names alike.
C23_ListedMovesAndPackageEnd ==
  [][HandledWrite
       => /\ MovesOnlyAlong(ListedMoves \cup
                              {<<"IN_PACKAGE", "START", "package", "end">>})
          /\ RecordsInItsSection]_vars

\* the package end tag was handled after a manifest and a spine that
\* recorded an item and resolved an itemref
C23_Witness ==
  /\ pc = "opfWrite" /\ opf.parser /\ opf.done
  /\ opf.state = "START"
  /\ opf.sections = {"manifest", "spine"}
  /\ Len(opf.manifest) > 0 /\ Len(spineArgs) > 0

(* ------------------------------------------------------------------ *)
(* The TOC pass                                                         *)
(* ------------------------------------------------------------------ *)

\* the smallest index of spine whose href is exactly href, or none
SmallestSpineIndex(spine, href) ==
  IF \A k \in 1..Len(spine) : spine[k] # href THEN NotFound
  ELSE (CHOOSE k \in 1..Len(spine) :
          spine[k] = href /\ \A j \in 1..(k - 1) : spine[j] # href) - 1

\* C22: a createTocEntry call of the TOC pass writes a record whose
\* spineIndex is the smallest index i in [0, spineCount) whose spine entry
\* has exactly the entry's href, and none (-1) when no spine entry has it.
C22_SpineIndexIsFirstExactMatch ==
  [][(pc = "ncxStream" /\ tocArgs' # tocArgs) =>
       LET t == tocArgs'[Len(tocArgs')]
           written == tocRecords(fs'[tmpTocBinFile].data, 0, cache'.tocCount)
       IN  /\ cache.spineCount = Len(spineArgs)
           /\ written[cache'.tocCount].entry.href = t.href
           /\ written[cache'.tocCount].entry.spineIndex
                = SmallestSpineIndex(spineArgs, t.href)]_vars

\* two spine entries have the href of the TOC entry created first, which
\* got the index of the first of them
C22_Witness ==
  /\ pc = "ncxStream"
  /\ spineArgs = <<HrefA, HrefA>>
  /\ Len(tocArgs) = 2
  /\ tocArgs[1].href = HrefA /\ tocArgs[2].href = HrefZ
  /\ tocRecords(fs[tmpTocBinFile].data, 0, cache.tocCount)[1].entry.spineIndex = 0
  /\ tocRecords(fs[tmpTocBinFile].data, 0, cache.tocCount)[2].entry.spineIndex = NotFound

(* ------------------------------------------------------------------ *)
(* The layout of book.bin                                               *)
(* ------------------------------------------------------------------ *)

\* C28: in a finalized book.bin the spine records stand in spine index
\* order from the byte after the LUT on, the TOC records in TOC index order
\* from the byte after the last spine record on, each LUT slot holds the
\* offset of its record, and the offsets of the spineCount + tocCount slots
\* are strictly increasing.
C28_RecordsInLutOrder ==
  ServingFinalized =>
    LET f == BookBin
        n == StoredSpineCount(f)
        m == StoredTocCount(f)
        lutEnd == LutEnd(f)
        s == spineRecords(f, lutEnd, n)
        t == tocRecords(f, IF n = 0 THEN lutEnd ELSE s[n].next, m)
    IN  /\ n = Len(finalized.spine) /\ m = Len(finalized.toc)
        /\ lutEnd = StoredLutOffset(f) + SizeTWidth * (n + m)
        /\ \A i \in 0..(n - 1) :
             /\ LutSlot(f, i) = s[i + 1].pos
             /\ s[i + 1].entry.href = finalized.spine[i + 1]
        /\ \A j \in 0..(m - 1) :
             /\ LutSlot(f, n + j) = t[j + 1].pos
             /\ t[j + 1].entry.title = finalized.toc[j + 1].title
             /\ t[j + 1].entry.href = finalized.toc[j + 1].href
        /\ \A k \in 0..(n + m - 2) : LutSlot(f, k) < LutSlot(f, k + 1)
        /\ Len(f) = IF m > 0 THEN t[m].next
                    ELSE IF n > 0 THEN s[n].next ELSE lutEnd

\* a finalized book.bin of two spine records and two TOC records
C28_Witness ==
  /\ ServingFinalized
  /\ StoredSpineCount(BookBin) = 2 /\ StoredTocCount(BookBin) = 2
  /\ LutSlot(BookBin, 0) = LutEnd(BookBin)
  /\ LutSlot(BookBin, 2) = WalkedSpine(BookBin)[2].next
  /\ LutSlot(BookBin, 3) > LutSlot(BookBin, 2)

(* ------------------------------------------------------------------ *)
(* The reader activity and its display task                             *)
(* ------------------------------------------------------------------ *)

\* a step of the main task that executed section.reset(): a page turn out
\* of the section or a chapter skip in loop(), a callback of the chapter
\* selection that changed the position, or onExit()
InputSideReset ==
  /\ activity'.inputReset
  /\ activity'.main # activity.main \/ activity'.subActivity # activity.subActivity

\* C29: every section.reset() of the input side is executed while the
\* caller holds renderingMutex, so that none happens while the display task
\* is inside renderScreen.
C29_SectionResetUnderMutex ==
  [][InputSideReset =>
       activity.renderingMutex = "main" /\ ~Rendering]_vars

\* the display task is deleted in this step
TaskDeleted == activity'.display = "deleted" /\ activity.display # "deleted"

\* C30: the display task is deleted only while onExit holds renderingMutex
\* and the display task is not between its xSemaphoreTake and
\* xSemaphoreGive around renderScreen.
C30_TaskDeletedOutsideRender ==
  [][TaskDeleted =>
       activity.renderingMutex = "main" /\ ~Rendering]_vars

\* the display task was deleted while it waited for the mutex that onExit
\* held, with an update requested and not yet rendered
C30_Witness ==
  /\ activity.main = "exited"
  /\ activity.display = "deleted"
  /\ activity.deletedAt = "take"

(* ------------------------------------------------------------------ *)
(* Cross-references of the finalized index                              *)
(* ------------------------------------------------------------------ *)

\* C31: in a finalized index every toc[j].spineIndex is -1 or a spine index,
\* every spine[i].tocIndex is -1 or a TOC index, and spine[i].tocIndex = j >= 0
\* implies toc[j].spineIndex = i.
C31_CrossReferencesConsistent ==
  ServingFinalized =>
    /\ \A j \in TocIndices :
         LET spineIndex == getTocEntry(cache, fs, j).spineIndex
         IN  spineIndex = NotFound \/ spineIndex \in SpineIndices
    /\ \A i \in SpineIndices :
         LET tocIndex == getSpineEntry(cache, fs, i).tocIndex
         IN  /\ tocIndex = NotFound \/ tocIndex \in TocIndices
             /\ tocIndex # NotFound =>
                  getTocEntry(cache, fs, tocIndex).spineIndex = i

\* a finalized index in which the second spine entry is the target of the
\* second TOC entry and the first TOC entry is unresolved
C31_Witness ==
  /\ ServingFinalized
  /\ Len(finalized.spine) = 2 /\ Len(finalized.toc) = 2
  /\ getTocEntry(cache, fs, 0).spineIndex = NotFound
  /\ getTocEntry(cache, fs, 1).spineIndex = 1
  /\ getSpineEntry(cache, fs, 1).tocIndex = 1
  /\ getSpineEntry(cache, fs, 0).tocIndex = NotFound

(* ------------------------------------------------------------------ *)
(* The counts of the header and the records of the scratch files        *)
(* ------------------------------------------------------------------ *)

\* the number of records a scratch file holds, walked from position pos on
RECURSIVE SpineRecordsIn(_, _)
SpineRecordsIn(f, pos) ==
  IF pos >= Len(f) THEN 0 ELSE 1 + SpineRecordsIn(f, readSpineEntry(f, pos).next)

RECURSIVE TocRecordsIn(_, _)
TocRecordsIn(f, pos) ==
  IF pos >= Len(f) THEN 0 ELSE 1 + TocRecordsIn(f, readTocEntry(f, pos).next)

\* C32: whatever builder calls were made, the spineCount and tocCount that a
\* successful buildBookBin writes to the header of book.bin are the numbers of
\* records the spine and TOC scratch files hold when it runs.
C32_HeaderCountsAreRecordCounts ==
  [][(pc = "Merging" /\ finalized'.built) =>
       /\ StoredSpineCount(fs'[bookBinFile].data)
            = SpineRecordsIn(fs[tmpSpineBinFile].data, 0)
       /\ StoredTocCount(fs'[bookBinFile].data)
            = TocRecordsIn(fs[tmpTocBinFile].data, 0)]_vars

(* ------------------------------------------------------------------ *)
(* The cover of a document that declares none                           *)
(* ------------------------------------------------------------------ *)

\* the metadata has held no meta entry with name=cover
NoCoverDeclared == opf.declared = {}

\* C33: when the package pass ends on a document read to its end whose
\* metadata declares no meta entry with name=cover, coverItemHref is empty,
\* whatever items the manifest holds.
C33_NoCoverWithoutCoverMeta ==
  [][(PassSucceeds /\ opf.parser /\ NoCoverDeclared)
       => (opf.coverItemHref = <<>> /\ bookMetadata'.coverItemHref = <<>>)]_vars

(* ------------------------------------------------------------------ *)
(* A package document without NCX item                                  *)
(* ------------------------------------------------------------------ *)

\* the package pass of this load() has ended and has captured no NCX path
PassEndedWithoutNcx ==
  /\ pc \in {"endContentOpfPass", "beginTocPass", "parseTocNcx"}
  /\ tocNcxItem = <<>>

\* the stages of load() from the read loop of the NCX document to the reload
AfterNcxCheck ==
  {"ncxStream", "endTocPass", "endWrite", "buildBookBin", "cleanupTmpFiles",
   "reload"}

\* C34: when the package pass has captured no NCX path, load() goes on to
\* begin the TOC pass and returns false from parseTocNcxFile with both
\* scratch files of the TOC pass open; no later stage is entered, so
\* buildBookBin is not called, and book.bin is not written.
C34_NoNcxNoIndex ==
  [][/\ PassEndedWithoutNcx =>
          /\ PassEndedWithoutNcx' \/ (pc' = "returned" /\ ~result')
          /\ fs'[bookBinFile] = fs[bookBinFile]
          /\ ~finalized'.built \/ finalized' = finalized
     /\ (PassEndedWithoutNcx /\ pc = "parseTocNcx") =>
          /\ cache.spineFile = "r" /\ cache.tocFile = "w"
          /\ pc' = "returned" /\ ~result'
     /\ pc' \in AfterNcxCheck => tocNcxItem' # <<>>]_vars

\* load() has returned false for the missing NCX item, after beginTocPass
\* created the TOC scratch file, on a cache directory that holds a book.bin
\* of an older format
C34_Witness ==
  /\ pc = "returned" /\ ~result /\ stageError = "noNcx"
  /\ tocNcxItem = <<>>
  /\ fs[tmpTocBinFile].exists
  /\ cache.tocFile = "w"
  /\ fs[bookBinFile] = FileOf(StaleBookBin)
  /\ Len(spineArgs) = 2

(* ------------------------------------------------------------------ *)
(* Epub::getSpineIndexForTocIndex                                       *)
(* ------------------------------------------------------------------ *)

---------------------------------------------------------------------------
(* Epub::calculateProgress over the indexes the builder produces: a spine is
   created, buildBookBin merges it with the sizes the archive answers, the
   index is loaded, and the status bar asks for the progress *)

MaxProgressSpine == 3
\* the read fractions asked for are k / ReadSteps, k in 0..ReadSteps
ReadSteps == 2

\* what the conversion of an out-of-range value to uint8_t may give
OutOfRangeResults == {0, 101, 255}

\* getCumulativeSpineItemSize(currentSpineIndex - 1), or 0 for the first item
prevChapterSize(c, fsys, currentSpineIndex) ==
  IF currentSpineIndex >= 1
  THEN getCumulativeSpineItemSize(c, fsys, currentSpineIndex - 1) ELSE 0

\* the size_t subtraction of calculateProgress wraps around
chapterSizeUnderflows(c, fsys, currentSpineIndex) ==
  getCumulativeSpineItemSize(c, fsys, currentSpineIndex)
    < prevChapterSize(c, fsys, currentSpineIndex)

\* Epub::calculateProgress(currentSpineIndex, read / ReadSteps).  After an
\* underflow curChapterSize is 2^32 less the difference, more than any book
\* size: with a read fraction above 0 the quotient is beyond uint8_t and the
\* conversion gives wild.  The float product is truncated to size_t, the
\* quotient is rounded to the nearest integer.
calculateProgress(c, fsys, currentSpineIndex, read, wild) ==
  LET bookSize == getBookSize(c, fsys)
      prev == prevChapterSize(c, fsys, currentSpineIndex)
      underflow == chapterSizeUnderflows(c, fsys, currentSpineIndex)
      curChapterSize == getCumulativeSpineItemSize(c, fsys, currentSpineIndex) - prev
      sectionProgSize == (read * curChapterSize) \div ReadSteps
      rounded == ((prev + sectionProgSize) * 200 + bookSize) \div (2 * bookSize)
  IN  IF bookSize = 0 THEN 0
      ELSE IF underflow /\ read > 0 THEN wild
      ELSE IF underflow THEN (IF (prev * 200 + bookSize) \div (2 * bookSize) > 255
                              THEN wild
                              ELSE (prev * 200 + bookSize) \div (2 * bookSize))
      ELSE IF rounded > 255 THEN wild
      ELSE rounded

InitProgress ==
  /\ pc = "progressSpine"
  /\ result = FALSE
  /\ cache = [beginWrite(NewCache) EXCEPT !.spineFile = "w"]
  /\ fs = openFileForWrite(EmptyFs, tmpSpineBinFile)
  /\ archive = [hasContainer |-> TRUE]
  /\ tocNcxItem = NcxPath
  /\ bookMetadata = EmptyMetadata
  /\ stageError = "none"
  /\ spineArgs = <<>>
  /\ tocArgs = <<>>
  /\ finalized = NotBuilt
  /\ lastRead = NoRead
  /\ parserFiles = NoParserFiles
  /\ outOfPhase = <<>>
  /\ opf = <<>>
  /\ activity = <<>>

\* the package pass creates a spine entry
progressCreateSpineEntry ==
  /\ pc = "progressSpine"
  /\ Len(spineArgs) < MaxProgressSpine
  /\ \E href \in SpineHrefs :
       LET r == createSpineEntry(cache, fs, href)
       IN  /\ cache' = r.cache
           /\ fs' = r.fs
           /\ spineArgs' = Append(spineArgs, href)
  /\ UNCHANGED <<pc, result, archive, tocNcxItem, bookMetadata, stageError,
                 tocArgs, finalized, lastRead, parserFiles, outOfPhase, opf,
                 activity>>

\* the rest of Epub::load() on storage that does not fail, with an NCX
\* document of no navigation point: endContentOpfPass, beginTocPass,
\* parseTocNcxFile, endTocPass, endWrite, buildBookBin, cleanupTmpFiles, load
progressFinishLoad ==
  /\ pc = "progressSpine"
  /\ \E sizes \in SizeAnswers :
       LET scratch == openFileForWrite(fs, tmpTocBinFile)
           ended   == endWrite([cache EXCEPT !.spineFile = "closed",
                                             !.tocFile = "closed"])
           built   == buildBookBin(ended, scratch, bookMetadata, sizes, "none")
           served  == load(NewCache, cleanupTmpFiles(built.fs), FALSE, "loaded")
       IN  /\ pc' = "returned"
           /\ result' = (served.outcome = "ok")
           /\ cache' = served.cache
           /\ fs' = cleanupTmpFiles(built.fs)
           /\ finalized' = [built |-> TRUE, spine |-> spineArgs, toc |-> <<>>,
                            sizes |-> sizes, metadata |-> bookMetadata]
  /\ UNCHANGED <<archive, tocNcxItem, bookMetadata, stageError, spineArgs,
                 tocArgs, lastRead, parserFiles, outOfPhase, opf, activity>>

\* renderStatusBar: epub->calculateProgress(currentSpineIndex, currentPage / pageCount)
progressCalculate ==
  /\ pc = "returned" /\ result
  /\ \E currentSpineIndex \in 0..(getSpineItemsCount(cache) - 1),
        read \in 0..ReadSteps, wild \in OutOfRangeResults :
       lastRead' =
         [kind |-> "progress", index |-> currentSpineIndex,
          entry |-> [read |-> read,
                     underflow |-> /\ getBookSize(cache, fs) # 0
                                   /\ chapterSizeUnderflows(cache, fs, currentSpineIndex),
                     progress |-> calculateProgress(cache, fs, currentSpineIndex,
                                                    read, wild)]]
  /\ UNCHANGED <<pc, result, cache, fs, archive, tocNcxItem, bookMetadata,
                 stageError, spineArgs, tocArgs, finalized, parserFiles,
                 outOfPhase, opf, activity>>

NextProgress ==
  \/ progressCreateSpineEntry
  \/ progressFinishLoad
  \/ progressCalculate

SpecProgress == InitProgress /\ [][NextProgress]_vars

\* C36: calculateProgress returns 0 when the book size is 0, and for every
\* spine index of the index and every read fraction in [0, 1] a percentage
\* in 0..100, the chapter-size subtraction never wrapping around.
C36_ProgressIsPercentage ==
  (pc = "returned" /\ lastRead.kind = "progress") =>
    /\ getBookSize(cache, fs) = 0 => lastRead.entry.progress = 0
    /\ lastRead.entry.progress \in 0..100
    /\ ~lastRead.entry.underflow

(* ------------------------------------------------------------------ *)
(* Chapter selection                                                    *)
(* ------------------------------------------------------------------ *)

\* C37: in the chapter selection of an EPUB and of an XTC book with at least
\* one item, selectorIndex is at least 0 and below the item count after any
\* sequence of previous and next inputs, short or long, for every number of
\* items per page
C37_SelectorIndexInRange ==
  pc = "selecting" =>
    /\ activity.selectorIndex >= 0
    /\ activity.selectorIndex < activity.itemCount

(* ------------------------------------------------------------------ *)
(* Spine index of the reader                                            *)
(* ------------------------------------------------------------------ *)

\* this step of the display task returns from renderScreen
RenderScreenCompleted == Rendering /\ activity'.display = "poll"

\* this step of the display task constructs a Section and keeps it
SectionConstructed ==
  /\ activity.display = "section"
  /\ activity.section = <<>>
  /\ activity'.section # <<>>

\* this step of the main task is loop() with a page button released at the
\* end-of-book position of a book with at least one spine item
PageTurnAtEndOfBook ==
  /\ activity.main = "loop" /\ ~activity.subActivity
  /\ MaxChapters > 0 /\ activity.currentSpineIndex >= MaxChapters
  /\ activity'.main = "notify"

\* C38: in EpubReaderActivity currentSpineIndex is in 0..spine count after
\* every completed renderScreen, a Section is only constructed for a spine
\* index at least 0 and below the spine count, and a page turn at the
\* end-of-book position moves to the last spine item.
C38_SpineIndexWithinBook ==
  [][/\ RenderScreenCompleted => activity'.currentSpineIndex \in 0..MaxChapters
     /\ SectionConstructed => activity'.section[2] \in 0..(MaxChapters - 1)
     /\ PageTurnAtEndOfBook => activity'.currentSpineIndex = MaxChapters - 1]_vars

(* ------------------------------------------------------------------ *)
(* Screen updates                                                       *)
(* ------------------------------------------------------------------ *)

\* the steps of a call of loop() that has begun: they wait for no input
MainContinues ==
  \/ loopResetSection
  \/ loopEnterChapterSelection
  \/ loopUpdateRequired

\* the steps of displayTaskLoop()
DisplayTask ==
  \/ displaySeesUpdateRequired
  \/ displayUpdateRequired
  \/ displayTakeMutex
  \/ renderScreenBounds
  \/ renderScreen

\* the main task finishes the loop() it is in, and the display task takes a
\* step when it stays able to
SpecActivityFair ==
  /\ SpecActivity
  /\ WF_vars(MainContinues)
  /\ WF_vars(DisplayTask)

\* the input side has changed what is displayed, or asked for it to be
\* drawn, and renderScreen was not entered since
UpdateRequested == activity.unrendered

\* onExit() has taken the mutex to delete the display task
Exiting == activity.main \in {"onExit", "exited"}

\* the display task enters renderScreen after every change of the input
\* side, unless the activity is exited
UpdateRendered == UpdateRequested ~> (~UpdateRequested \/ Exiting)

====
